---- MODULE Spec2Model ----
(***************************************************************************)
(* Recipe markup parser, metadata extractor, validator and collection      *)
(* manager of the To Serve Man cookbook, with the two renderers' body      *)
(* parsers (LaTeX and HTML).  Text is a sequence of one-character strings, *)
(* so every regular expression of the source is an operator over positions *)
(* of such a sequence.                                                     *)
(***************************************************************************)
EXTENDS Integers, Sequences, FiniteSets, TLC

(***************************************************************************)
(* Characters and the str methods the source uses                          *)
(***************************************************************************)
LowerSeq == <<"a","b","c","d","e","f","g","h","i","j","k","l","m","n","o","p","q","r","s","t","u","v","w","x","y","z">>
UpperSeq == <<"A","B","C","D","E","F","G","H","I","J","K","L","M","N","O","P","Q","R","S","T","U","V","W","X","Y","Z">>
DigitSeq == <<"0","1","2","3","4","5","6","7","8","9">>

Range(f) == {f[i] : i \in DOMAIN f}

\* \s of the re module, and the characters str.strip() removes
Space == {" ", "\t", "\n", "\r"}

\* \w of the re module
Word == Range(LowerSeq) \cup Range(UpperSeq) \cup Range(DigitSeq) \cup {"_"}

\* str.lower() on one character
LowerChar(c) ==
    IF c \in Range(UpperSeq)
    THEN LowerSeq[CHOOSE i \in DOMAIN UpperSeq : UpperSeq[i] = c]
    ELSE c

\* str.lower()
lower(s) == [i \in DOMAIN s |-> LowerChar(s[i])]

\* first position j >= i of s whose character is not in class (Len(s)+1 if none):
\* the end of a greedy run  [class]*  that starts at i
ScanIn(s, i, class) ==
    IF i > Len(s) THEN i
    ELSE CHOOSE j \in i..(Len(s) + 1) :
            /\ j > Len(s) \/ s[j] \notin class
            /\ \A k \in i..(j - 1) : s[k] \in class

\* first position j >= i of s whose character is in stop (Len(s)+1 if none):
\* the end of a greedy run  [^stop]*  that starts at i
ScanNotIn(s, i, stop) ==
    IF i > Len(s) THEN i
    ELSE CHOOSE j \in i..(Len(s) + 1) :
            /\ j > Len(s) \/ s[j] \in stop
            /\ \A k \in i..(j - 1) : s[k] \notin stop

\* last position j <= i of s whose character is not in class (0 if none)
ScanBack(s, i, class) ==
    IF i < 1 THEN i
    ELSE CHOOSE j \in 0..i :
            /\ j < 1 \/ s[j] \notin class
            /\ \A k \in (j + 1)..i : s[k] \in class

\* str.strip()
strip(s) ==
    LET a == ScanIn(s, 1, Space)
        b == ScanBack(s, Len(s), Space)
    IN  IF a > b THEN <<>> ELSE SubSeq(s, a, b)

\* str.startswith(prefix)
startswith(s, prefix) ==
    Len(s) >= Len(prefix) /\ SubSeq(s, 1, Len(prefix)) = prefix

\* str.replace(ch, replacement) for a one-character ch
RECURSIVE ReplaceFrom(_, _, _, _)
ReplaceFrom(s, i, ch, replacement) ==
    LET j == ScanNotIn(s, i, {ch})
    IN  IF j > Len(s) THEN SubSeq(s, i, Len(s))
        ELSE SubSeq(s, i, j - 1) \o replacement \o ReplaceFrom(s, j + 1, ch, replacement)

replace(s, ch, replacement) == ReplaceFrom(s, 1, ch, replacement)

\* str.split('\n'): always at least one piece
RECURSIVE SplitFrom(_, _)
SplitFrom(s, i) ==
    LET j == ScanNotIn(s, i, {"\n"})
    IN  IF j > Len(s) THEN <<SubSeq(s, i, Len(s))>>
        ELSE <<SubSeq(s, i, j - 1)>> \o SplitFrom(s, j + 1)

split_lines(s) == SplitFrom(s, 1)

\* sep.join(parts)
RECURSIVE join(_, _)
join(sep, parts) ==
    IF parts = <<>> THEN <<>>
    ELSE IF Len(parts) = 1 THEN parts[1]
    ELSE parts[1] \o sep \o join(sep, Tail(parts))

\* the concatenation of a sequence of sequences
RECURSIVE Flatten(_)
Flatten(ss) == IF ss = <<>> THEN <<>> ELSE Head(ss) \o Flatten(Tail(ss))

\* s occurs in t as a contiguous run (the Python  s in t  on strings)
Contains(t, s) ==
    \E i \in 1..(Len(t) - Len(s) + 1) : SubSeq(t, i, i + Len(s) - 1) = s

(***************************************************************************)
(* PDFGenerator.escape_latex                                               *)
(***************************************************************************)
\* the replacements dict, in its insertion order
LatexReplacements ==
    << <<"&",  <<"\\","&">>>>,
       <<"%",  <<"\\","%">>>>,
       <<"$",  <<"\\","$">>>>,
       <<"#",  <<"\\","#">>>>,
       <<"_",  <<"\\","_">>>>,
       <<"{",  <<"\\","{">>>>,
       <<"}",  <<"\\","}">>>>,
       <<"~",  <<"\\","t","e","x","t","a","s","c","i","i","t","i","l","d","e","{","}">>>>,
       <<"^",  <<"\\","^","{","}">>>>,
       <<"\\", <<"\\","t","e","x","t","b","a","c","k","s","l","a","s","h","{","}">>>> >>

RECURSIVE ApplyReplacements(_, _, _)
ApplyReplacements(text, reps, k) ==
    IF k > Len(reps) THEN text
    ELSE ApplyReplacements(replace(text, reps[k][1], reps[k][2]), reps, k + 1)

escape_latex(text) ==
    IF text = <<>> THEN <<>> ELSE ApplyReplacements(text, LatexReplacements, 1)

(***************************************************************************)
(* The frontmatter pattern  ^---\s*\n(.*?)\n---\s*\n  with re.DOTALL,      *)
(* used by Recipe._extract_metadata (re.match) and by both                 *)
(* parse_recipe_content (re.sub)                                           *)
(***************************************************************************)
Dashes == <<"-","-","-">>

\* last position j in lo..hi with s[j] = "\n" (0 if none)
LastNewline(s, lo, hi) ==
    LET N == {j \in lo..hi : s[j] = "\n"}
    IN  IF N = {} THEN 0 ELSE CHOOSE j \in N : \A k \in N : k <= j

\* \n---\s*\n  matched at position b: the position after the match, 0 if none.
\* \s* is greedy and gives back characters until a "\n" follows it.
CloseEnd(s, b) ==
    IF b + 3 <= Len(s) /\ s[b] = "\n" /\ SubSeq(s, b + 1, b + 3) = Dashes
    THEN LET nl == LastNewline(s, b + 4, ScanIn(s, b + 4, Space) - 1)
         IN  IF nl = 0 THEN 0 ELSE nl + 1
    ELSE 0

\* (.*?) is lazy: the first position b >= g where the closing part matches
RECURSIVE FindClose(_, _)
FindClose(s, g) ==
    LET b == ScanNotIn(s, g, {"\n"})
    IN  IF b > Len(s) THEN 0
        ELSE IF CloseEnd(s, b) > 0 THEN b
        ELSE FindClose(s, b + 1)

\* the match at the start of the text; the opening \s* is greedy, so of the
\* newlines it may stop before, the last one that lets the rest match is taken
FrontmatterMatch(s) ==
    LET w    == ScanIn(s, 4, Space)
        Opens == {a \in 4..(w - 1) : s[a] = "\n" /\ FindClose(s, a + 1) > 0}
    IN  IF startswith(s, Dashes) /\ Opens # {}
        THEN LET a == CHOOSE x \in Opens : \A y \in Opens : y <= x
                 b == FindClose(s, a + 1)
             IN  [found |-> TRUE, group1 |-> SubSeq(s, a + 1, b - 1),
                  end |-> CloseEnd(s, b)]
        ELSE [found |-> FALSE, group1 |-> <<>>, end |-> 1]

\* re.sub(r'^---\s*\n.*?\n---\s*\n', '', raw_content, flags=re.DOTALL)
StripFrontmatter(raw) == SubSeq(raw, FrontmatterMatch(raw).end, Len(raw))

\* content.strip().split('\n'), each line then stripped by the loop
BodyLines(raw) ==
    LET lines == split_lines(strip(StripFrontmatter(raw)))
    IN  [k \in DOMAIN lines |-> strip(lines[k])]

(***************************************************************************)
(* Inline annotation patterns                                              *)
(***************************************************************************)
Markers == {"@", "#", "~"}
NameStop == {"{", "@", "#", "~"}

\* (?:\{[^}]*\})?  at position e: the position after it
BraceEnd(s, e) ==
    LET c == ScanNotIn(s, e + 1, {"}"})
    IN  IF e <= Len(s) /\ s[e] = "{" /\ c <= Len(s) THEN c + 1 ELSE e

\* finditer(r'@([^{@#~]+)\{([^}]*)\}', line): the groups of each match
RECURSIVE PdfIngredientMatches(_, _)
PdfIngredientMatches(s, from) ==
    LET i == ScanNotIn(s, from, {"@"})
        e == ScanNotIn(s, i + 1, NameStop)
        c == ScanNotIn(s, e + 1, {"}"})
    IN  IF i > Len(s) THEN <<>>
        ELSE IF e > i + 1 /\ e <= Len(s) /\ s[e] = "{" /\ c <= Len(s)
        THEN <<[name |-> SubSeq(s, i + 1, e - 1), qty |-> SubSeq(s, e + 1, c - 1)]>>
             \o PdfIngredientMatches(s, c + 1)
        ELSE PdfIngredientMatches(s, i + 1)

\* finditer(r'@([^{@#~\s]+(?:\s+[^{@#~\s]+)*)\{([^}]*)\}', line): the name is
\* a run without markers or '{' that neither starts nor ends with whitespace
RECURSIVE SiteIngredientMatches(_, _)
SiteIngredientMatches(s, from) ==
    LET i == ScanNotIn(s, from, {"@"})
        e == ScanNotIn(s, i + 1, NameStop)
        c == ScanNotIn(s, e + 1, {"}"})
    IN  IF i > Len(s) THEN <<>>
        ELSE IF e > i + 1 /\ e <= Len(s) /\ s[e] = "{" /\ c <= Len(s)
                /\ s[i + 1] \notin Space /\ s[e - 1] \notin Space
        THEN <<[name |-> SubSeq(s, i + 1, e - 1), qty |-> SubSeq(s, e + 1, c - 1)]>>
             \o SiteIngredientMatches(s, c + 1)
        ELSE SiteIngredientMatches(s, i + 1)

\* (?:\s+\w+)*  at position e, greedy: the position after it
RECURSIVE WordsEnd(_, _)
WordsEnd(s, e) ==
    LET sp == ScanIn(s, e, Space)
        w  == ScanIn(s, sp, Word)
    IN  IF sp > e /\ w > sp THEN WordsEnd(s, w) ELSE e

\* (?:\s+[^{@#~\s]+)*  at position e, greedy: the position after it
RECURSIVE TokensEnd(_, _)
TokensEnd(s, e) ==
    LET sp == ScanIn(s, e, Space)
        w  == ScanNotIn(s, sp, NameStop \cup Space)
    IN  IF sp > e /\ w > sp THEN TokensEnd(s, w) ELSE e

\* re.sub(r'@(\w+(?:\s+\w+)*)(?:\{[^}]*\})?', r'\1', text)
RECURSIVE PdfSubIngredient(_, _)
PdfSubIngredient(s, from) ==
    LET i == ScanNotIn(s, from, {"@"})
        w == ScanIn(s, i + 1, Word)
        e == WordsEnd(s, w)
    IN  IF i > Len(s) THEN SubSeq(s, from, Len(s))
        ELSE IF w > i + 1
        THEN SubSeq(s, from, i - 1) \o SubSeq(s, i + 1, e - 1)
             \o PdfSubIngredient(s, BraceEnd(s, e))
        ELSE SubSeq(s, from, i) \o PdfSubIngredient(s, i + 1)

\* re.sub(r'#(\w+)(?:\{[^}]*\})?', r'\1', text)
RECURSIVE PdfSubCookware(_, _)
PdfSubCookware(s, from) ==
    LET i == ScanNotIn(s, from, {"#"})
        w == ScanIn(s, i + 1, Word)
    IN  IF i > Len(s) THEN SubSeq(s, from, Len(s))
        ELSE IF w > i + 1
        THEN SubSeq(s, from, i - 1) \o SubSeq(s, i + 1, w - 1)
             \o PdfSubCookware(s, BraceEnd(s, w))
        ELSE SubSeq(s, from, i) \o PdfSubCookware(s, i + 1)

\* clean_timer that forgets the separator (a faulty variant, for C2)
clean_timer_keeps_separator(group1) == group1

\* clean_timer / the body of replace_timer: group 1 with '%' as a space
clean_timer(group1) == replace(group1, "%", <<" ">>)

\* re.sub(r'~\{([^}]+)\}', clean_timer, text)
RECURSIVE PdfSubTimer(_, _)
PdfSubTimer(s, from) ==
    LET i == ScanNotIn(s, from, {"~"})
        c == ScanNotIn(s, i + 2, {"}"})
    IN  IF i > Len(s) THEN SubSeq(s, from, Len(s))
        ELSE IF i + 1 <= Len(s) /\ s[i + 1] = "{" /\ c > i + 2 /\ c <= Len(s)
        THEN SubSeq(s, from, i - 1) \o clean_timer(SubSeq(s, i + 2, c - 1))
             \o PdfSubTimer(s, c + 1)
        ELSE SubSeq(s, from, i) \o PdfSubTimer(s, i + 1)

\* re.sub(r'\{\}', '', text)
RECURSIVE SubEmptyBraces(_, _)
SubEmptyBraces(s, from) ==
    LET i == ScanNotIn(s, from, {"{"})
    IN  IF i > Len(s) THEN SubSeq(s, from, Len(s))
        ELSE IF i + 1 <= Len(s) /\ s[i + 1] = "}"
        THEN SubSeq(s, from, i - 1) \o SubEmptyBraces(s, i + 2)
        ELSE SubSeq(s, from, i) \o SubEmptyBraces(s, i + 1)

\* re.sub(r'[@#~]\s*', '', text)
RECURSIVE SubOrphanMarkers(_, _)
SubOrphanMarkers(s, from) ==
    LET i == ScanNotIn(s, from, Markers)
    IN  IF i > Len(s) THEN SubSeq(s, from, Len(s))
        ELSE SubSeq(s, from, i - 1) \o SubOrphanMarkers(s, ScanIn(s, i + 1, Space))

\* PDFGenerator.parse_recipe_content, the resolution of one instruction line
\* before LaTeX escaping
PdfResolve(line) ==
    LET t1 == PdfSubIngredient(line, 1)
        t2 == PdfSubCookware(t1, 1)
        t3 == PdfSubTimer(t2, 1)
        t4 == SubEmptyBraces(t3, 1)
    IN  SubOrphanMarkers(t4, 1)

\* the display string of one match: "<name> (<quantity>)" or "<name>"
Display(name, qty) ==
    IF qty # <<>> THEN name \o <<" ","(">> \o replace(qty, "%", <<" ">>) \o <<")">>
    ELSE name

\* the ingredients_dict update of one line: a key not yet present is appended
RECURSIVE PdfRegister(_, _, _)
PdfRegister(dict, matches, k) ==
    IF k > Len(matches) THEN dict
    ELSE LET ing_name == strip(matches[k].name)
             ing_qty  == strip(matches[k].qty)
             key      == lower(ing_name)
         IN  IF \E d \in DOMAIN dict : dict[d].key = key
             THEN PdfRegister(dict, matches, k + 1)
             ELSE PdfRegister(Append(dict, [key |-> key, display |-> Display(ing_name, ing_qty)]),
                              matches, k + 1)

\* a comment marker no line starts with (a faulty variant, for C7)
CommentMarkerSlashes == <<"/","/">>

CommentMarker == <<"-","-">>
SectionMarker == <<">",">">>

\* the loop over the lines of PDFGenerator.parse_recipe_content
RECURSIVE PdfLoop(_, _, _, _)
PdfLoop(lines, k, dict, instructions) ==
    IF k > Len(lines) THEN [dict |-> dict, instructions |-> instructions]
    ELSE LET line == strip(lines[k])
         IN  IF line = <<>> \/ startswith(line, CommentMarker)
             THEN PdfLoop(lines, k + 1, dict, instructions)
             ELSE IF startswith(line, SectionMarker)
             THEN PdfLoop(lines, k + 1, dict,
                          Append(instructions,
                                 [kind |-> "section", text |-> strip(SubSeq(line, 3, Len(line)))]))
             ELSE PdfLoop(lines, k + 1,
                          PdfRegister(dict, PdfIngredientMatches(line, 1), 1),
                          Append(instructions,
                                 [kind |-> "step", text |-> escape_latex(PdfResolve(line))]))

\* the end of PDFGenerator.parse_recipe_content: the dict becomes the list
PdfResult(r) ==
    [ingredients  |-> [d \in DOMAIN r.dict |-> escape_latex(r.dict[d].display)],
     instructions |-> r.instructions]

\* PDFGenerator.parse_recipe_content: (unique_ingredients, instructions)
pdf_parse_recipe_content(raw_content) ==
    PdfResult(PdfLoop(split_lines(strip(StripFrontmatter(raw_content))), 1, <<>>, <<>>))
(***************************************************************************)
(* SiteGenerator.parse_recipe_content                                      *)
(***************************************************************************)
SpanClose == <<"<","/","s","p","a","n",">">>

\* replace_ingredient
replace_ingredient(group1) == <<"<","s","p","a","n"," ","c","l","a","s","s","=","\"","i","n","g","r","e","d","i","e","n","t","\"",">">> \o group1 \o SpanClose

\* replace_cookware
replace_cookware(group1) == <<"<","s","p","a","n"," ","c","l","a","s","s","=","\"","c","o","o","k","w","a","r","e","\"",">">> \o group1 \o SpanClose

\* replace_timer
replace_timer(group1) == <<"<","s","p","a","n"," ","c","l","a","s","s","=","\"","t","i","m","e","r","\"",">">> \o clean_timer(group1) \o SpanClose

\* re.sub(r'@([^{@#~\s]+(?:\s+[^{@#~\s]+)*)(?:\{[^}]*\})?', replace_ingredient, text)
RECURSIVE SiteSubIngredient(_, _)
SiteSubIngredient(s, from) ==
    LET i == ScanNotIn(s, from, {"@"})
        w == ScanNotIn(s, i + 1, NameStop \cup Space)
        e == TokensEnd(s, w)
    IN  IF i > Len(s) THEN SubSeq(s, from, Len(s))
        ELSE IF w > i + 1
        THEN SubSeq(s, from, i - 1) \o replace_ingredient(SubSeq(s, i + 1, e - 1))
             \o SiteSubIngredient(s, BraceEnd(s, e))
        ELSE SubSeq(s, from, i) \o SiteSubIngredient(s, i + 1)

\* re.sub(r'#(\w+)(?:\{[^}]*\})?', replace_cookware, text)
RECURSIVE SiteSubCookware(_, _)
SiteSubCookware(s, from) ==
    LET i == ScanNotIn(s, from, {"#"})
        w == ScanIn(s, i + 1, Word)
    IN  IF i > Len(s) THEN SubSeq(s, from, Len(s))
        ELSE IF w > i + 1
        THEN SubSeq(s, from, i - 1) \o replace_cookware(SubSeq(s, i + 1, w - 1))
             \o SiteSubCookware(s, BraceEnd(s, w))
        ELSE SubSeq(s, from, i) \o SiteSubCookware(s, i + 1)

\* re.sub(timer_pattern, replace_timer, text)
RECURSIVE SiteSubTimer(_, _)
SiteSubTimer(s, from) ==
    LET i == ScanNotIn(s, from, {"~"})
        c == ScanNotIn(s, i + 2, {"}"})
    IN  IF i > Len(s) THEN SubSeq(s, from, Len(s))
        ELSE IF i + 1 <= Len(s) /\ s[i + 1] = "{" /\ c > i + 2 /\ c <= Len(s)
        THEN SubSeq(s, from, i - 1) \o replace_timer(SubSeq(s, i + 2, c - 1))
             \o SiteSubTimer(s, c + 1)
        ELSE SubSeq(s, from, i) \o SiteSubTimer(s, i + 1)

\* SiteGenerator.parse_recipe_content, the instruction_html of one line
SiteResolve(line) ==
    SiteSubTimer(SiteSubCookware(SiteSubIngredient(line, 1), 1), 1)

\* the display strings one line appends to the ingredients list
SiteLineIngredients(line) ==
    LET matches == SiteIngredientMatches(line, 1)
    IN  [k \in DOMAIN matches |-> Display(strip(matches[k].name), strip(matches[k].qty))]

SectionHeaderOpen == <<"<","h","3"," ","c","l","a","s","s","=","\"","s","e","c","t","i","o","n","-","h","e","a","d","e","r","\"",">">>
SectionHeaderClose == <<"<","/","h","3",">">>

\* the loop over the lines of SiteGenerator.parse_recipe_content
RECURSIVE SiteLoop(_, _, _, _)
SiteLoop(lines, k, ingredients, instructions) ==
    IF k > Len(lines) THEN [ingredients |-> ingredients, instructions |-> instructions]
    ELSE LET line == strip(lines[k])
         IN  IF line = <<>> \/ startswith(line, CommentMarker)
             THEN SiteLoop(lines, k + 1, ingredients, instructions)
             ELSE IF startswith(line, SectionMarker)
             THEN SiteLoop(lines, k + 1, ingredients,
                           Append(instructions,
                                  SectionHeaderOpen \o strip(SubSeq(line, 3, Len(line)))
                                  \o SectionHeaderClose))
             ELSE SiteLoop(lines, k + 1,
                           ingredients \o SiteLineIngredients(line),
                           Append(instructions, SiteResolve(line)))

\* re.sub(r'\([^)]*\)', '', ing)
RECURSIVE SubParenthesised(_, _)
SubParenthesised(s, from) ==
    LET i == ScanNotIn(s, from, {"("})
        c == ScanNotIn(s, i + 1, {")"})
    IN  IF i > Len(s) THEN SubSeq(s, from, Len(s))
        ELSE IF c <= Len(s)
        THEN SubSeq(s, from, i - 1) \o SubParenthesised(s, c + 1)
        ELSE SubSeq(s, from, i) \o SubParenthesised(s, i + 1)

\* ing_base: the key the site compares ingredients by
SiteIngBase(ing) == lower(strip(SubParenthesised(ing, 1)))

\* the order-preserving removal of duplicates
RECURSIVE SiteUnique(_, _, _, _)
SiteUnique(ingredients, k, seen, unique_ingredients) ==
    IF k > Len(ingredients) THEN unique_ingredients
    ELSE LET ing_base == SiteIngBase(ingredients[k])
         IN  IF ing_base \in seen
             THEN SiteUnique(ingredients, k + 1, seen, unique_ingredients)
             ELSE SiteUnique(ingredients, k + 1, seen \cup {ing_base},
                             Append(unique_ingredients, ingredients[k]))

HeaderPrefix == <<"<","h","3">>
OlOpen == <<"<","o","l",">">>
OlClose == <<"<","/","o","l",">">>

ListItem(step) == <<"<","l","i",">">> \o step \o <<"<","/","l","i",">">>

\* the <ol> block of the steps collected so far (nothing when there are none)
SiteBlock(current_section_steps) ==
    IF current_section_steps = <<>> THEN <<>>
    ELSE <<OlOpen>> \o [k \in DOMAIN current_section_steps |-> ListItem(current_section_steps[k])]
         \o <<OlClose>>

\* the grouping loop that builds instructions_parts
RECURSIVE SiteGroup(_, _, _, _)
SiteGroup(instructions, k, instructions_parts, current_section_steps) ==
    IF k > Len(instructions)
    THEN instructions_parts \o SiteBlock(current_section_steps)
    ELSE IF startswith(instructions[k], HeaderPrefix)
         THEN SiteGroup(instructions, k + 1,
                        instructions_parts \o SiteBlock(current_section_steps)
                        \o <<instructions[k]>>, <<>>)
         ELSE SiteGroup(instructions, k + 1, instructions_parts,
                        Append(current_section_steps, instructions[k]))

\* the lists joined into the two HTML strings
SiteHtml(instructions, unique_ingredients, instructions_parts) ==
    [unique_ingredients |-> unique_ingredients,
     instructions       |-> instructions,
     instructions_parts |-> instructions_parts,
     ingredients_html   |->
         <<"<","u","l",">","\n">>
         \o join(<<"\n">>, [k \in DOMAIN unique_ingredients |-> ListItem(unique_ingredients[k])])
         \o <<"\n","<","/","u","l",">">>,
     instructions_html  |-> join(<<"\n">>, instructions_parts)]

\* the end of SiteGenerator.parse_recipe_content: duplicates removed, steps grouped
SiteResult(r) ==
    SiteHtml(r.instructions, SiteUnique(r.ingredients, 1, {}, <<>>),
             SiteGroup(r.instructions, 1, <<>>, <<>>))

\* SiteGenerator.parse_recipe_content: (ingredients_html, instructions_html),
\* with the lists they are built from
site_parse_recipe_content(raw_content) ==
    SiteResult(SiteLoop(split_lines(strip(StripFrontmatter(raw_content))), 1, <<>>, <<>>))

(***************************************************************************)
(* Metadata values: what yaml.safe_load yields for the header subset in    *)
(* use (null, strings, integers, the float .inf, flow lists of strings);   *)
(* None is the null.                                                       *)
(***************************************************************************)
None    == [t |-> "null", s |-> <<>>, n |-> 0, xs |-> <<>>]
StrVal(s)  == [t |-> "str",  s |-> s,    n |-> 0, xs |-> <<>>]
IntVal(n)  == [t |-> "int",  s |-> <<>>, n |-> n, xs |-> <<>>]
ListVal(xs) == [t |-> "list", s |-> <<>>, n |-> 0, xs |-> xs]
\* float('inf'), which YAML writes .inf ; s is its str()
FloatInf == [t |-> "float", s |-> <<"i","n","f">>, n |-> 0, xs |-> <<>>]

\* bool(v)
Truthy(v) ==
    CASE v.t = "null" -> FALSE
      [] v.t = "str"  -> v.s # <<>>
      [] v.t = "int"  -> v.n # 0
      [] v.t = "list" -> v.xs # <<>>
      [] v.t = "float" -> TRUE

DigitValue(c) == (CHOOSE i \in DOMAIN DigitSeq : DigitSeq[i] = c) - 1

IsDigits(s) == s # <<>> /\ \A i \in DOMAIN s : s[i] \in Range(DigitSeq)

RECURSIVE ParseInt(_, _)
ParseInt(s, k) ==
    IF k = 0 THEN 0 ELSE 10 * ParseInt(s, k - 1) + DigitValue(s[k])

\* the pieces of s between the occurrences of the character sep
RECURSIVE SplitOn(_, _, _)
SplitOn(s, i, sep) ==
    LET j == ScanNotIn(s, i, {sep})
    IN  IF j > Len(s) THEN <<SubSeq(s, i, Len(s))>>
        ELSE <<SubSeq(s, i, j - 1)>> \o SplitOn(s, j + 1, sep)

\* characters that cannot start a plain YAML scalar
YamlIndicators == {"@", "[", "]", "{", "}", ">", "|", "*", "&", "!", "%", "#", ","}

\* one YAML scalar or flow sequence, as the value of a key
YamlValue(v) ==
    IF v = <<>> THEN [ok |-> TRUE, value |-> None]
    ELSE IF v[1] = "["
    THEN IF v[Len(v)] = "]" /\ Len(v) >= 2
         THEN LET inner == strip(SubSeq(v, 2, Len(v) - 1))
                  items == IF inner = <<>> THEN <<>> ELSE SplitOn(inner, 1, ",")
              IN  [ok |-> TRUE,
                   value |-> ListVal([k \in DOMAIN items |-> StrVal(strip(items[k]))])]
         ELSE [ok |-> FALSE, value |-> None]
    ELSE IF v[1] \in YamlIndicators THEN [ok |-> FALSE, value |-> None]
    ELSE IF IsDigits(v) THEN [ok |-> TRUE, value |-> IntVal(ParseInt(v, Len(v)))]
    ELSE IF v \in {<<".","i","n","f">>, <<".","I","n","f">>, <<".","I","N","F">>} THEN [ok |-> TRUE, value |-> FloatInf]
    ELSE [ok |-> TRUE, value |-> StrVal(v)]

\* the position of the colon that ends the key of a key-value line, 0 if none
KeyColon(line) ==
    LET C == {c \in DOMAIN line :
                line[c] = ":" /\ (c = Len(line) \/ line[c + 1] \in Space)}
    IN  IF C = {} THEN 0 ELSE CHOOSE c \in C : \A d \in C : c <= d

\* yaml.safe_load of a header body: a block mapping with one key-value pair
\* per line, a single plain scalar, or nothing; anything else is a YAMLError
YamlLoad(text) ==
    LET all     == split_lines(text)
        content == SelectSeq([k \in DOMAIN all |-> strip(all[k])], LAMBDA l : l # <<>>)
        IsPair(l) == KeyColon(l) > 1
        Key(l)    == strip(SubSeq(l, 1, KeyColon(l) - 1))
        Val(l)    == YamlValue(strip(SubSeq(l, KeyColon(l) + 1, Len(l))))
        keys      == {Key(content[k]) : k \in DOMAIN content}
        Last(key) == CHOOSE k \in DOMAIN content :
                        /\ Key(content[k]) = key
                        /\ \A j \in DOMAIN content : Key(content[j]) = key => j <= k
    IN  IF content = <<>> THEN [kind |-> "null", map |-> <<>>, scalar |-> <<>>]
        ELSE IF \A k \in DOMAIN content : IsPair(content[k])
        THEN IF \A k \in DOMAIN content : Val(content[k]).ok
             THEN [kind |-> "mapping",
                   map |-> [key \in keys |-> Val(content[Last(key)]).value],
                   scalar |-> <<>>]
             ELSE [kind |-> "error", map |-> <<>>, scalar |-> <<>>]
        ELSE IF Len(content) = 1 /\ content[1][1] \notin YamlIndicators
        THEN [kind |-> "scalar", map |-> <<>>, scalar |-> content[1]]
        ELSE [kind |-> "error", map |-> <<>>, scalar |-> <<>>]

(***************************************************************************)
(* Recipe                                                                  *)
(***************************************************************************)
\* what  yaml.safe_load(match.group(1)) or {}  returns or raises
LoadedMetadata(y) ==
    IF y.kind = "error" THEN [raised |-> "ValueError", dict |-> <<>>, isdict |-> TRUE]
    ELSE IF y.kind = "mapping" THEN [raised |-> "none", dict |-> y.map, isdict |-> TRUE]
    ELSE IF y.kind = "scalar" THEN [raised |-> "none", dict |-> <<>>, isdict |-> FALSE]
    ELSE [raised |-> "none", dict |-> <<>>, isdict |-> TRUE]

\* the branches of Recipe._extract_metadata on the match of the pattern
MatchedMetadata(match) ==
    IF match.found THEN LoadedMetadata(YamlLoad(match.group1))
    ELSE [raised |-> "none", dict |-> <<>>, isdict |-> TRUE]

\* Recipe._extract_metadata: the dict, or the exception of the yaml call, or
\* the truthy non-dict value that  safe_load(...) or {}  lets through
extract_metadata(raw_content) == MatchedMetadata(FrontmatterMatch(raw_content))

\* dict.get(key, default)
Get(dict, key, default) == IF key \in DOMAIN dict THEN dict[key] ELSE default

\* str(filepath): the path components joined by the separator
PathStr(filepath) == join(<<"/">>, filepath)

\* filepath.stem: the last component without its last suffix
PathStem(filepath) ==
    LET name == filepath[Len(filepath)]
        D    == {d \in 2..Len(name) : name[d] = "."}
    IN  IF D = {} THEN name
        ELSE SubSeq(name, 1, (CHOOSE d \in D : \A e \in D : e <= d) - 1)

\* Recipe._determine_category: filepath.parent.name
determine_category(filepath) ==
    IF Len(filepath) >= 2 THEN filepath[Len(filepath) - 1] ELSE <<>>

Alnum == Range(LowerSeq) \cup Range(DigitSeq)

\* slugify (python-slugify) on ASCII text: lower case, every run of other
\* characters becomes one '-', and no '-' at either end
RECURSIVE SlugFrom(_, _)
SlugFrom(s, from) ==
    LET i == ScanNotIn(s, from, Alnum)
        j == ScanIn(s, i, Alnum)
    IN  IF i > Len(s) THEN <<>>
        ELSE SubSeq(s, i, j - 1)
             \o (IF ScanNotIn(s, j, Alnum) > Len(s) THEN <<>> ELSE <<"-">> \o SlugFrom(s, j))

slugify(text) == SlugFrom(lower(text), 1)

CocktailType == <<"c","o","c","k","t","a","i","l">>
CocktailsDir == <<"c","o","c","k","t","a","i","l","s">>
UntitledRecipe == <<"U","n","t","i","t","l","e","d"," ","R","e","c","i","p","e">>

\* Recipe.__init__ once self.metadata is set (m): the Recipe, or the
\* exception that ends the construction
Construct(filepath, raw_content, m) ==
    LET given == Get(m.dict, <<"t","i","t","l","e">>, StrVal(PathStem(filepath)))
        exc   == IF m.raised # "none" THEN m.raised
                 ELSE IF ~m.isdict THEN "AttributeError"
                 ELSE IF given.t # "str" THEN "TypeError"
                 ELSE "none"
    IN  [raised |-> exc,
         recipe |->
            IF exc # "none" THEN <<>>
            ELSE [filepath    |-> filepath,
                  raw_content |-> raw_content,
                  metadata    |-> m.dict,
                  is_cocktail |-> \/ Get(m.dict, <<"t","y","p","e">>, None) = StrVal(CocktailType)
                                  \/ Contains(PathStr(filepath), CocktailsDir),
                  slug        |-> slugify(given.s),
                  category    |-> determine_category(filepath)]]

\* Recipe(filepath, parsed_data, raw_content)
NewRecipe(filepath, raw_content) ==
    Construct(filepath, raw_content, extract_metadata(raw_content))

\* the glass accessor reading the wrong key (a faulty variant, for C6)
glass_reads_garnish(recipe) == Get(recipe.metadata, <<"g","a","r","n","i","s","h">>, None)

\* the typed accessors
title(recipe)       == Get(recipe.metadata, <<"t","i","t","l","e">>, StrVal(UntitledRecipe))
description(recipe) == Get(recipe.metadata, <<"d","e","s","c","r","i","p","t","i","o","n">>, None)
tags(recipe)        == Get(recipe.metadata, <<"t","a","g","s">>, ListVal(<<>>))
cuisine(recipe)     == Get(recipe.metadata, <<"c","u","i","s","i","n","e">>, None)
spirit_base(recipe) == Get(recipe.metadata, <<"s","p","i","r","i","t","_","b","a","s","e">>, None)
glass(recipe)       == Get(recipe.metadata, <<"g","l","a","s","s">>, None)
garnish(recipe)     == Get(recipe.metadata, <<"g","a","r","n","i","s","h">>, None)
prep_time(recipe)   == Get(recipe.metadata, <<"p","r","e","p","_","t","i","m","e">>, None)
cook_time(recipe)   == Get(recipe.metadata, <<"c","o","o","k","_","t","i","m","e">>, None)

\* int(v) of a header value: the integer, or the exception it raises
ToInt(v) ==
    CASE v.t = "int" -> [raised |-> "none", value |-> v]
      [] v.t = "str" ->
           IF IsDigits(strip(v.s))
           THEN [raised |-> "none", value |-> IntVal(ParseInt(strip(v.s), Len(strip(v.s))))]
           ELSE [raised |-> "ValueError", value |-> None]
      [] v.t = "float" -> [raised |-> "OverflowError", value |-> None]
      [] OTHER -> [raised |-> "TypeError", value |-> None]

\* Recipe.servings: int(servings) of a truthy value, None when int() raises
\* a ValueError or a TypeError; any other exception leaves the accessor
servings(recipe) ==
    LET v == Get(recipe.metadata, <<"s","e","r","v","i","n","g","s">>, None)
    IN  IF ~Truthy(v) THEN [raised |-> "none", value |-> None]
        ELSE IF ToInt(v).raised \in {"ValueError", "TypeError"}
        THEN [raised |-> "none", value |-> None]
        ELSE ToInt(v)

\* the messages of Recipe.validate, each  "<filepath>: <text>"
Message(recipe, text) == PathStr(recipe.filepath) \o <<":"," ">> \o text

MissingTitle      == <<"M","i","s","s","i","n","g"," ","r","e","q","u","i","r","e","d"," ","f","i","e","l","d"," ","'","t","i","t","l","e","'">>
MissingSpiritBase == <<"C","o","c","k","t","a","i","l"," ","r","e","c","i","p","e","s"," ","s","h","o","u","l","d"," ","h","a","v","e"," ","'","s","p","i","r","i","t","_","b","a","s","e","'">>
MissingGlass      == <<"C","o","c","k","t","a","i","l"," ","r","e","c","i","p","e","s"," ","s","h","o","u","l","d"," ","h","a","v","e"," ","'","g","l","a","s","s","'">>
MissingCuisine    == <<"F","o","o","d"," ","r","e","c","i","p","e","s"," ","s","h","o","u","l","d"," ","h","a","v","e"," ","'","c","u","i","s","i","n","e","'">>

\* Recipe.validate
validate(recipe) ==
    LET e1 == IF ~Truthy(title(recipe)) \/ title(recipe) = StrVal(UntitledRecipe)
              THEN <<Message(recipe, MissingTitle)>> ELSE <<>>
        e2 == IF recipe.is_cocktail
              THEN (IF ~Truthy(spirit_base(recipe))
                    THEN <<Message(recipe, MissingSpiritBase)>> ELSE <<>>)
                   \o (IF ~Truthy(glass(recipe))
                       THEN <<Message(recipe, MissingGlass)>> ELSE <<>>)
              ELSE (IF ~Truthy(cuisine(recipe))
                    THEN <<Message(recipe, MissingCuisine)>> ELSE <<>>)
    IN  e1 \o e2

(***************************************************************************)
(* PDFGenerator.format_recipe_latex                                        *)
(***************************************************************************)
IsLetter(c) == c \in Range(LowerSeq) \cup Range(UpperSeq)

UpperChar(c) ==
    IF c \in Range(LowerSeq)
    THEN UpperSeq[CHOOSE i \in DOMAIN LowerSeq : LowerSeq[i] = c]
    ELSE c

\* str.title(): a letter after a non-letter is upper case, any other lower
TitleCase(s) ==
    [i \in DOMAIN s |->
        IF i = 1 \/ ~IsLetter(s[i - 1]) THEN UpperChar(s[i]) ELSE LowerChar(s[i])]

\* str(n) of a natural number
RECURSIVE IntToStr(_)
IntToStr(n) ==
    IF n < 10 THEN <<DigitSeq[n + 1]>>
    ELSE IntToStr(n \div 10) \o <<DigitSeq[(n % 10) + 1]>>

\* str(v) inside an f-string, for the strings and numbers of a header
Str(v) == IF v.t = "int" THEN IntToStr(v.n) ELSE v.s

\* the metadata line parts
MetaParts(recipe) ==
    IF recipe.is_cocktail
    THEN (IF Truthy(glass(recipe)) THEN <<TitleCase(glass(recipe).s)>> ELSE <<>>)
         \o (IF Truthy(spirit_base(recipe)) THEN <<TitleCase(spirit_base(recipe).s)>> ELSE <<>>)
         \o (IF Truthy(garnish(recipe)) /\ lower(garnish(recipe).s) # <<"n","o","n","e">>
             THEN <<<<"G","a","r","n","i","s","h",":"," ">> \o Str(garnish(recipe))>> ELSE <<>>)
    ELSE (IF Truthy(servings(recipe).value)
          THEN <<Str(servings(recipe).value) \o <<" ","s","e","r","v","i","n","g","s">>>> ELSE <<>>)
         \o (IF Truthy(prep_time(recipe)) THEN <<Str(prep_time(recipe)) \o <<" ","p","r","e","p">>>> ELSE <<>>)
         \o (IF Truthy(cook_time(recipe)) THEN <<Str(cook_time(recipe)) \o <<" ","c","o","o","k">>>> ELSE <<>>)

BeginEnumerate == <<"\\","b","e","g","i","n","{","e","n","u","m","e","r","a","t","e","}">>
EndEnumerate   == <<"\\","e","n","d","{","e","n","u","m","e","r","a","t","e","}">>

Item(text) == <<"\\","i","t","e","m"," ">> \o text

\* the enumerate block of the steps collected so far (nothing when none)
PdfBlock(current_section_items) ==
    IF current_section_items = <<>> THEN <<>>
    ELSE <<BeginEnumerate>>
         \o [k \in DOMAIN current_section_items |-> Item(current_section_items[k])]
         \o <<EndEnumerate>>

\* the grouping loop over the instructions
RECURSIVE PdfGroup(_, _, _, _)
PdfGroup(instructions, k, latex, current_section_items) ==
    IF k > Len(instructions) THEN latex \o PdfBlock(current_section_items)
    ELSE IF instructions[k].kind = "section"
         THEN PdfGroup(instructions, k + 1,
                       latex \o PdfBlock(current_section_items)
                       \o <<<<"\\","s","u","b","s","e","c","t","i","o","n","*","{">> \o escape_latex(instructions[k].text) \o <<"}">>>>,
                       <<>>)
         ELSE PdfGroup(instructions, k + 1, latex,
                       Append(current_section_items, instructions[k].text))

\* the attribution line
Attribution(recipe) ==
    LET author     == Get(recipe.metadata, <<"a","u","t","h","o","r">>, None)
        adapted_by == Get(recipe.metadata, <<"a","d","a","p","t","e","d","_","b","y">>, None)
        attr_parts == (IF Truthy(author) THEN <<<<"R","e","c","i","p","e"," ","b","y"," ">> \o Str(author)>> ELSE <<>>)
                      \o (IF Truthy(adapted_by) THEN <<<<"a","d","a","p","t","e","d"," ","b","y"," ">> \o Str(adapted_by)>> ELSE <<>>)
    IN  IF attr_parts = <<>> THEN <<>>
        ELSE <<<<"\\","r","e","c","i","p","e","a","t","t","r","i","b","u","t","i","o","n","{">> \o escape_latex(join(<<","," ">>, attr_parts)) \o <<"}">>>>

\* the lines of format_recipe_latex, given the parsed body
FormatLines(recipe, parsed, meta_parts) ==
    <<<<"\\","n","e","e","d","s","p","a","c","e","{","4","\\","b","a","s","e","l","i","n","e","s","k","i","p","}">>,
      <<"\\","s","e","c","t","i","o","n","{">> \o escape_latex(title(recipe).s) \o <<"}">>>>
    \o (IF meta_parts = <<>> THEN <<>>
        ELSE <<<<"\\","r","e","c","i","p","e","m","e","t","a","{">>
               \o join(<<" ","\\","q","u","a","d"," ">>, [k \in DOMAIN meta_parts |-> escape_latex(meta_parts[k])])
               \o <<"}">>>>)
    \o (IF Truthy(description(recipe))
        THEN <<<<"\\","r","e","c","i","p","e","d","e","s","c","r","i","p","t","i","o","n","{">> \o escape_latex(description(recipe).s) \o <<"}">>>>
        ELSE <<>>)
    \o (IF parsed.ingredients = <<>> THEN <<>>
        ELSE <<<<"{","\\","i","n","g","r","e","d","i","e","n","t","s","h","e","a","d","i","n","g"," ","I","n","g","r","e","d","i","e","n","t","s","}","\\","p","a","r">>, <<"\\","b","e","g","i","n","{","i","n","g","r","e","d","i","e","n","t","s","}">>>>
             \o [k \in DOMAIN parsed.ingredients |-> Item(parsed.ingredients[k])]
             \o <<<<"\\","e","n","d","{","i","n","g","r","e","d","i","e","n","t","s","}">>>>)
    \o (IF parsed.instructions = <<>> THEN <<>>
        ELSE <<<<"\\","v","s","p","a","c","e","{","0",".","7","5","\\","b","a","s","e","l","i","n","e","s","k","i","p","}">>, <<"{","\\","i","n","s","t","r","u","c","t","i","o","n","s","h","e","a","d","i","n","g"," ","I","n","s","t","r","u","c","t","i","o","n","s","}","\\","p","a","r">>>>
             \o PdfGroup(parsed.instructions, 1, <<>>, <<>>))
    \o Attribution(recipe)
    \o <<<<"\\","c","l","e","a","r","p","a","g","e">>>>

\* PDFGenerator.format_recipe_latex: the lines that are joined with "\n", or
\* the exception of recipe.servings, which is read for a food recipe
format_recipe_latex(recipe) ==
    IF ~recipe.is_cocktail /\ servings(recipe).raised # "none"
    THEN [raised |-> servings(recipe).raised, lines |-> <<>>]
    ELSE [raised |-> "none",
          lines |-> FormatLines(recipe, pdf_parse_recipe_content(recipe.raw_content),
                                MetaParts(recipe))]

(***************************************************************************)
(* RecipeCollection                                                        *)
(***************************************************************************)
\* an insertion-ordered dict as a sequence of [key, value]
DictHas(d, key) == \E i \in DOMAIN d : d[i].key = key

DictGet(d, key) == d[CHOOSE i \in DOMAIN d : d[i].key = key].value

DictKeys(d) == {d[i].key : i \in DOMAIN d}

\* d[key] = value
DictSet(d, key, value) ==
    IF DictHas(d, key)
    THEN [i \in DOMAIN d |-> IF d[i].key = key THEN [key |-> key, value |-> value] ELSE d[i]]
    ELSE Append(d, [key |-> key, value |-> value])

\* d.setdefault(key, []).append(x), the idiom of the get_by_* methods
DictAppend(d, key, x) ==
    DictSet(d, key, IF DictHas(d, key) THEN Append(DictGet(d, key), x) ELSE <<x>>)

\* the loop body with an except clause that prints nothing (a faulty variant,
\* for C4)
LoadedFileSilently(f, use_cooklang_parser, cooklang, made) ==
    IF f.readable /\ made.raised = "none"
    THEN [recipes |-> <<made.recipe>>, log |-> <<>>]
    ELSE [recipes |-> <<>>, log |-> <<>>]

\* the body of the loop of load_recipes for one file, given what the Recipe
\* constructor does on its content (made): the recipes it appends and the
\* messages it prints.  cooklang is what  import cooklang  and
\* cooklang.parseRecipe do when use_cooklang_parser is set.
LoadedFile(f, use_cooklang_parser, cooklang, made) ==
    LET warning == IF use_cooklang_parser /\ cooklang # "parses"
                   THEN <<[kind |-> IF cooklang = "absent"
                                    THEN "Warning: cooklang-py not installed"
                                    ELSE "Warning: Failed to parse",
                           file |-> f.path]>>
                   ELSE <<>>
        error   == <<[kind |-> "Error loading recipe", file |-> f.path]>>
    IN  IF ~f.readable THEN [recipes |-> <<>>, log |-> error]
        ELSE IF made.raised # "none" THEN [recipes |-> <<>>, log |-> warning \o error]
        ELSE [recipes |-> <<made.recipe>>, log |-> warning]

LoadFile(f, use_cooklang_parser, cooklang) ==
    LoadedFile(f, use_cooklang_parser, cooklang, NewRecipe(f.path, f.raw_content))

\* self.recipes and the output after one more file
AfterFile(acc, one) ==
    [recipes |-> acc.recipes \o one.recipes, log |-> acc.log \o one.log]

\* the loop of load_recipes over the files from position k on
RECURSIVE LoadLoop(_, _, _, _, _)
LoadLoop(recipe_files, k, use_cooklang_parser, cooklang, acc) ==
    IF k > Len(recipe_files) THEN acc
    ELSE LoadLoop(recipe_files, k + 1, use_cooklang_parser, cooklang,
                  AfterFile(acc, LoadFile(recipe_files[k], use_cooklang_parser, cooklang)))

\* load_recipes on self.recipes = recs: the new self.recipes and the output
load_recipes(recipe_files, use_cooklang_parser, cooklang, recs) ==
    LoadLoop(recipe_files, 1, use_cooklang_parser, cooklang, [recipes |-> recs, log |-> <<>>])

\* RecipeCollection.get_by_category, the recipes as positions of self.recipes
RECURSIVE get_by_category(_, _, _)
get_by_category(recs, k, categories) ==
    IF k > Len(recs) THEN categories
    ELSE get_by_category(recs, k + 1, DictAppend(categories, recs[k].category, k))

\* what  for tag in recipe.tags  iterates over; None and numbers are not iterable
TagItems(v) ==
    CASE v.t = "list" -> [raised |-> "none", items |-> v.xs]
      [] v.t = "str"  -> [raised |-> "none", items |-> [i \in DOMAIN v.s |-> StrVal(<<v.s[i]>>)]]
      [] OTHER        -> [raised |-> "TypeError", items |-> <<>>]

RECURSIVE AppendUnderEach(_, _, _, _)
AppendUnderEach(d, items, j, x) ==
    IF j > Len(items) THEN d
    ELSE AppendUnderEach(DictAppend(d, items[j], x), items, j + 1, x)

\* RecipeCollection.get_by_tag
RECURSIVE get_by_tag(_, _, _)
get_by_tag(recs, k, tagmap) ==
    IF k > Len(recs) THEN [raised |-> "none", value |-> tagmap]
    ELSE LET it == TagItems(tags(recs[k]))
         IN  IF it.raised # "none" THEN [raised |-> it.raised, value |-> <<>>]
             ELSE get_by_tag(recs, k + 1, AppendUnderEach(tagmap, it.items, 1, k))

\* get_by_cuisine without the test of the recipe type (a faulty variant, for
\* C11)
RECURSIVE get_by_cuisine_any_type(_, _, _)
get_by_cuisine_any_type(recs, k, cuisines) ==
    IF k > Len(recs) THEN cuisines
    ELSE IF Truthy(cuisine(recs[k]))
         THEN get_by_cuisine_any_type(recs, k + 1, DictAppend(cuisines, cuisine(recs[k]), k))
         ELSE get_by_cuisine_any_type(recs, k + 1, cuisines)

\* RecipeCollection.get_by_cuisine
RECURSIVE get_by_cuisine(_, _, _)
get_by_cuisine(recs, k, cuisines) ==
    IF k > Len(recs) THEN cuisines
    ELSE IF ~recs[k].is_cocktail /\ Truthy(cuisine(recs[k]))
         THEN get_by_cuisine(recs, k + 1, DictAppend(cuisines, cuisine(recs[k]), k))
         ELSE get_by_cuisine(recs, k + 1, cuisines)

\* RecipeCollection.get_by_spirit
RECURSIVE get_by_spirit(_, _, _)
get_by_spirit(recs, k, spirits) ==
    IF k > Len(recs) THEN spirits
    ELSE IF recs[k].is_cocktail /\ Truthy(spirit_base(recs[k]))
         THEN get_by_spirit(recs, k + 1, DictAppend(spirits, spirit_base(recs[k]), k))
         ELSE get_by_spirit(recs, k + 1, spirits)

\* RecipeCollection.food_recipes / cocktail_recipes, as positions
food_recipes(recs) ==
    SelectSeq([k \in DOMAIN recs |-> k], LAMBDA k : ~recs[k].is_cocktail)

cocktail_recipes(recs) ==
    SelectSeq([k \in DOMAIN recs |-> k], LAMBDA k : recs[k].is_cocktail)

\* validate_all without the test for findings (a faulty variant, for C12)
RECURSIVE validate_all_keeps_empty(_, _, _)
validate_all_keeps_empty(recs, k, all_errors) ==
    IF k > Len(recs) THEN all_errors
    ELSE validate_all_keeps_empty(recs, k + 1,
                                  DictSet(all_errors, PathStr(recs[k].filepath),
                                          validate(recs[k])))

\* the loop of validate_all: path -> errors, for the recipes with any
RECURSIVE validate_all(_, _, _)
validate_all(recs, k, all_errors) ==
    IF k > Len(recs) THEN all_errors
    ELSE IF validate(recs[k]) # <<>>
         THEN validate_all(recs, k + 1,
                           DictSet(all_errors, PathStr(recs[k].filepath), validate(recs[k])))
         ELSE validate_all(recs, k + 1, all_errors)


(***************************************************************************)
(* The generators                                                          *)
(***************************************************************************)
\* the characters of the titles and keys in use here, in code point order
CodePoints == <<" ", "-">> \o DigitSeq \o UpperSeq \o <<"_">> \o LowerSeq

\* ord(c), for a character of CodePoints
Ord(c) == IF c \in Range(CodePoints)
          THEN CHOOSE i \in DOMAIN CodePoints : CodePoints[i] = c
          ELSE 0

\* a < b  for two str
StrLess(a, b) ==
    LET D == {i \in DOMAIN a \cap DOMAIN b : a[i] # b[i]}
    IN  IF D = {} THEN Len(a) < Len(b)
        ELSE \E i \in D : (\A j \in D : i <= j) /\ Ord(a[i]) < Ord(b[i])

\* sorted(items, key=...): keys[i] is the key of items[i]; the sort is stable
Sorted(items, keys) ==
    [r \in DOMAIN items |->
        items[CHOOSE i \in DOMAIN items :
                 Cardinality({j \in DOMAIN items :
                                 \/ StrLess(keys[j], keys[i])
                                 \/ keys[j] = keys[i] /\ j < i}) = r - 1]]

\* sorted(recipes, key=lambda r: r.title), the recipes as positions of recs
SortedByTitle(recs, positions) ==
    Sorted(positions, [i \in DOMAIN positions |-> title(recs[positions[i]]).s])

\* the categories dict of generate_latex: category -> food recipes
RECURSIVE FoodCategories(_, _, _, _)
FoodCategories(recs, food, i, categories) ==
    IF i > Len(food) THEN categories
    ELSE FoodCategories(recs, food, i + 1,
                        DictAppend(categories, recs[food[i]].category, food[i]))

category_order == << <<"b","r","e","a","k","f","a","s","t">>, <<"b","a","s","i","c","s">>, <<"m","a","i","n","s">>, <<"s","i","d","e","s">>, <<"d","e","s","s","e","r","t","s">> >>

\* sorted_categories: the known categories in their order, then the others
SortedCategories(categories) ==
    LET known == SelectSeq(category_order, LAMBDA cat : DictHas(categories, cat))
    IN  [i \in DOMAIN known |-> [key |-> known[i], value |-> DictGet(categories, known[i])]]
        \o SelectSeq(categories, LAMBDA e : e.key \notin Range(category_order))

\* one part of the document for each recipe of a list: its formatted lines
\* (recipe is the position of the Recipe in the collection)
RecipeParts(recs, positions) ==
    [i \in DOMAIN positions |->
        [kind |-> "recipe", recipe |-> positions[i],
         raised |-> format_recipe_latex(recs[positions[i]]).raised,
         lines |-> format_recipe_latex(recs[positions[i]]).lines]]

Heading(kind, text) == [kind |-> kind, recipe |-> 0, raised |-> "none", lines |-> <<text>>]

\* the chapters of the food part
RECURSIVE Chapters(_, _, _)
Chapters(recs, sorted_categories, i) ==
    IF i > Len(sorted_categories) THEN <<>>
    ELSE <<Heading("chapter",
                   TitleCase(replace(sorted_categories[i].key, "-", <<" ">>)))>>
         \o RecipeParts(recs, SortedByTitle(recs, sorted_categories[i].value))
         \o Chapters(recs, sorted_categories, i + 1)

\* Part I of generate_latex
FoodPart(recs, food) ==
    IF food = <<>> THEN <<>>
    ELSE <<Heading("part", <<"F","o","o","d">>)>>
         \o Chapters(recs, SortedCategories(FoodCategories(recs, food, 1, <<>>)), 1)

\* the recipes of the spirits, the spirits in sorted order
RECURSIVE SpiritRecipes(_, _, _)
SpiritRecipes(recs, spirits, i) ==
    IF i > Len(spirits) THEN <<>>
    ELSE RecipeParts(recs, SortedByTitle(recs, spirits[i].value))
         \o SpiritRecipes(recs, spirits, i + 1)

\* for spirit in sorted(spirits.keys())
SortedSpirits(spirits) == Sorted(spirits, [i \in DOMAIN spirits |-> spirits[i].key.s])

\* Part II of generate_latex
CocktailPart(recs, cocktails) ==
    IF cocktails = <<>> THEN <<>>
    ELSE <<Heading("part", <<"C","o","c","k","t","a","i","l","s">>), Heading("chapter", <<"C","o","c","k","t","a","i","l","s">>)>>
         \o SpiritRecipes(recs, SortedSpirits(get_by_spirit(recs, 1, <<>>)), 1)

\* the parts of the document, in the order generate_latex appends them
LatexParts(recs) ==
    <<Heading("preamble", <<>>)>>
    \o FoodPart(recs, food_recipes(recs))
    \o CocktailPart(recs, cocktail_recipes(recs))
    \o <<Heading("closing", <<>>)>>

\* "\n".join(latex_parts), unless formatting a recipe has raised: then the
\* first exception leaves generate_latex
Joined(latex_parts) ==
    LET R == {i \in DOMAIN latex_parts : latex_parts[i].raised # "none"}
    IN  IF R = {} THEN [raised |-> "none", parts |-> latex_parts]
        ELSE [raised |-> latex_parts[CHOOSE i \in R : \A j \in R : i <= j].raised,
              parts |-> <<>>]

\* PDFGenerator.generate_latex: the parts that are joined into the document
generate_latex(recs) == Joined(LatexParts(recs))

\* the recipe pages of SiteGenerator.generate_all: the page of a recipe is
\* written to recipes/<slug>/index.html, so pages maps a slug to the recipe
\* (as a position) whose page was written there last
RECURSIVE RecipePages(_, _, _)
RecipePages(recs, k, pages) ==
    IF k > Len(recs) THEN pages
    ELSE RecipePages(recs, k + 1, DictSet(pages, recs[k].slug, k))

\* SiteGenerator.generate_all, as far as the recipe pages go: the homepage
\* context calls get_by_tag, and an exception of the homepage ends the run
\* before any recipe page
site_generate_all(recs) ==
    IF get_by_tag(recs, 1, <<>>).raised # "none"
    THEN [raised |-> get_by_tag(recs, 1, <<>>).raised, pages |-> <<>>]
    ELSE [raised |-> "none", pages |-> RecipePages(recs, 1, <<>>)]

\* build.validate_recipes once the collection is loaded: what it returns and
\* the findings it prints
validate_recipes(recs) ==
    [success |-> validate_all(recs, 1, <<>>) = <<>>,
     printed |-> validate_all(recs, 1, <<>>)]

\* an exit that ignores the result of the command (a faulty variant, for
\* C19)
ExitStatusZero(success) == IF success THEN 0 ELSE 0

\* sys.exit(0 if success else 1)
ExitStatus(success) == IF success THEN 0 ELSE 1
(***************************************************************************)
(* The documents and directories the model runs on                         *)
(***************************************************************************)
MaxFiles == 3
MaxLoads == 2
MaxReaderFiles == 2
MaxEscapeLen == 2
MaxRuns == 2
MaxLines == 2
MaxStructLines == 5
MaxHeaderBodyLines == 1

NL == <<"\n">>

\* the text of a document: its lines, and the end of the file
Doc(lines, tail) == join(NL, lines) \o tail

\* all sequences of at most n elements of S
SeqsUpTo(S, n) == UNION {[1..m -> S] : m \in 0..n}

\* the sequences of at most n distinct elements of S
InjSeqsUpTo(S, n) ==
    {s \in SeqsUpTo(S, n) : \A i, j \in DOMAIN s : i # j => s[i] # s[j]}

File(dir, name, readable, lines) ==
    [path |-> <<<<"r","e","c","i","p","e","s">>, dir, name>>, readable |-> readable,
     raw_content |-> Doc(lines, NL)]

Soup ==
    File(<<"m","a","i","n","s">>, <<"s","o","u","p",".","c","o","o","k">>, TRUE,
         <<Dashes, <<"t","i","t","l","e",":"," ","S","o","u","p">>, <<"c","u","i","s","i","n","e",":"," ","t","h","a","i">>, <<"t","a","g","s",":"," ","[","q","u","i","c","k",","," ","v","e","g","a","n","]">>, Dashes,
           <<"B","o","i","l"," ","@","w","a","t","e","r","{","1","%","l","}">>>>)

Negroni ==
    File(<<"c","o","c","k","t","a","i","l","s">>, <<"n","e","g","r","o","n","i",".","c","o","o","k">>, TRUE,
         <<Dashes, <<"t","i","t","l","e",":"," ","N","e","g","r","o","n","i">>, <<"t","y","p","e",":"," ","c","o","c","k","t","a","i","l">>, <<"s","p","i","r","i","t","_","b","a","s","e",":"," ","g","i","n">>,
           <<"t","a","g","s",":"," ","[","q","u","i","c","k","]">>, Dashes, <<"S","t","i","r"," ","@","g","i","n","{","3","0","%","m","l","}">>>>)

Plain == File(<<"m","a","i","n","s">>, <<"p","l","a","i","n",".","c","o","o","k">>, TRUE, <<<<"S","t","i","r">>>>)

Tea ==
    File(<<"d","r","i","n","k","s">>, <<"t","e","a",".","c","o","o","k">>, TRUE,
         <<Dashes, <<"t","i","t","l","e",":"," ","T","e","a">>, <<"c","u","i","s","i","n","e",":"," ","b","r","i","t","i","s","h">>, <<"t","a","g","s",":">>, Dashes, <<"S","t","e","e","p">>>>)

Broken ==
    File(<<"m","a","i","n","s">>, <<"b","r","o","k","e","n",".","c","o","o","k">>, TRUE,
         <<Dashes, <<"t","i","t","l","e",":"," ","[","o","o","p","s">>, Dashes, <<"S","t","i","r">>>>)

Locked == File(<<"s","i","d","e","s">>, <<"l","o","c","k","e","d",".","c","o","o","k">>, FALSE, <<>>)

\* a cocktail by its directory alone, with a cuisine and no spirit_base
Spritz ==
    File(<<"c","o","c","k","t","a","i","l","s">>, <<"s","p","r","i","t","z",".","c","o","o","k">>, TRUE,
         <<Dashes, <<"t","i","t","l","e",":"," ","S","p","r","i","t","z">>, <<"c","u","i","s","i","n","e",":"," ","i","t","a","l","i","a","n">>, Dashes, <<"P","o","u","r"," ","@","w","i","n","e","{","9","0","%","m","l","}">>>>)

\* the files a recipes directory may hold
Files == {Soup, Negroni, Spritz, Tea, Broken, Locked}

\* body lines with inline annotations
AnnotationLines ==
    { <<"A","d","d"," ","@","f","l","o","u","r","{","2","%","c","u","p","s","}"," ","a","n","d"," ","m","i","x"," ","w","i","t","h"," ","#","w","h","i","s","k"," ","f","o","r"," ","~","{","3","0","%","s","e","c","o","n","d","s","}">>,
      <<"A","d","d"," ","@","s","a","l","t","{","1"," ","t","s","p","}">>,
      <<"A","d","d"," ","@","S","a","l","t","{","2"," ","t","s","p","}">>,
      <<"A","d","d"," ","@","s","a","l","t","{","}">>,
      <<"A","d","d"," ","@","s","a","l","t">>,
      <<"S","e","a","s","o","n"," ","w","i","t","h"," ","@","s","a","l","t","{","1"," ","(","b","i","g",")"," ","t","s","p","}">>,
      <<"A","d","d"," ","@","o","l","i","v","e","-","o","i","l","{","2","%","t","b","s","p","}">>,
      <<"A","d","d"," ","@","s","e","a"," ","s","a","l","t"," ","{","1","%","t","s","p","}">>,
      <<"m","i","x"," ","@"," ","w","e","l","l">>,
      <<"-","-"," ","n","o","t","e"," ","@","s","a","l","t","{","9","}">>,
      <<">",">"," ","S","a","u","c","e">>,
      <<" "," ">>,
      <<"S","t","i","r">> }

\* body lines that only differ in how they are classified and grouped
StructLines == { <<"S","t","i","r">>, <<">",">"," ","S","a","u","c","e">>, <<">",">"," ","G","l","a","z","e">>, <<"<","h","3",">","T","i","p","<","/","h","3",">">> }

HeaderLines == <<Dashes, <<"t","i","t","l","e",":"," ","S","o","u","p">>, Dashes>>

DishPath == <<<<"r","e","c","i","p","e","s">>, <<"m","a","i","n","s">>, <<"d","i","s","h",".","c","o","o","k">>>>

\* a food document whose file name holds the word cocktails
ShrimpPath == <<<<"r","e","c","i","p","e","s">>, <<"m","a","i","n","s">>, <<"s","h","r","i","m","p","-","c","o","c","k","t","a","i","l","s",".","c","o","o","k">>>>

\* documents for the body parsers: bodies without a header, and short bodies
\* under a header, with and without a final newline
BodyDocs ==
    {Doc(b, <<>>) : b \in SeqsUpTo(AnnotationLines, MaxLines) \cup SeqsUpTo(StructLines, MaxStructLines)}
    \cup {Doc(h \o b, t) : h \in {<<>>, HeaderLines},
                           b \in SeqsUpTo(AnnotationLines, MaxHeaderBodyLines),
                           t \in {<<>>, NL}}

\* headers for the validator: every combination of the fields it reads
FieldLines(key, values) == {<<>>} \cup {<<key \o <<":"," ">> \o v>> : v \in values} \cup {<<key \o <<":">>>>}

HeaderDocs ==
    {Doc(<<Dashes>> \o t \o ty \o sb \o gl \o cu \o <<Dashes, <<"S","t","i","r">>>>, NL) :
        t  \in {<<>>, <<<<"t","i","t","l","e",":"," ","S","o","u","p">>>>, <<<<"t","i","t","l","e",":"," ","U","n","t","i","t","l","e","d"," ","R","e","c","i","p","e">>>>},
        ty \in {<<>>, <<<<"t","y","p","e",":"," ","c","o","c","k","t","a","i","l">>>>, <<<<"t","y","p","e",":"," ","f","o","o","d">>>>},
        sb \in FieldLines(<<"s","p","i","r","i","t","_","b","a","s","e">>, {<<"g","i","n">>}),
        gl \in FieldLines(<<"g","l","a","s","s">>, {<<"c","o","u","p","e">>}),
        cu \in FieldLines(<<"c","u","i","s","i","n","e">>, {<<"t","h","a","i">>})}

\* headers for the servings accessor: the key absent, without a value, and
\* with an integer, zero, a word, a list and the float .inf
ServingsDocs ==
    {Doc(<<Dashes, <<"t","i","t","l","e",":"," ","S","o","u","p">>, <<"c","u","i","s","i","n","e",":"," ","t","h","a","i">>>> \o sv \o <<Dashes, <<"S","t","i","r">>>>, NL) :
        sv \in FieldLines(<<"s","e","r","v","i","n","g","s">>,
                          {<<"4">>, <<"0">>, <<"f","o","u","r">>, <<"[","a",","," ","b","]">>, <<".","i","n","f">>})}

\* a directory with one readable document
OneFile(path, raw_content) ==
    <<[path |-> path, readable |-> TRUE, raw_content |-> raw_content]>>

(***************************************************************************)
(* State: one RecipeCollection over a recipes directory, and its caller    *)
(***************************************************************************)
VARIABLES
    root_exists,  \* recipes_dir.exists()
    files,        \* what rglob("*.cook") yields, in its order
    recipes,      \* self.recipes
    loaded,       \* self._loaded
    loads,        \* calls of load_recipes so far
    pc,           \* the caller: "idle" or "returned"
    ret,          \* the last call: its name, argument, exception, value, output
    readers,      \* the calls in progress of the reader threads
    disk          \* the build commands run so far, and the run that has written
                  \* output/cookbook.pdf and docs/cookbook.pdf (0: no such file)

vars == <<root_exists, files, recipes, loaded, loads, pc, ret, readers, disk>>

NoCall == [op |-> "none", arg |-> 0, raised |-> "none", value |-> <<>>, out |-> <<>>]

\* no build has run and there is no PDF
NoPdf == [run |-> 0, output_pdf |-> 0, docs_pdf |-> 0]

\* a reader thread that is not in a call
Waiting == [op |-> "none", k |-> 0, acc |-> <<>>, raised |-> "none", done |-> FALSE]

\* the reader threads
Readers == {"r1", "r2"}

NoReaders == [t \in Readers |-> Waiting]

Call(op, arg, raised, value, out) ==
    [op |-> op, arg |-> arg, raised |-> raised, value |-> value, out |-> out]

\* a new RecipeCollection over a directory
Init ==
    /\ root_exists \in BOOLEAN
    /\ files \in (IF root_exists THEN InjSeqsUpTo(Files, MaxFiles) ELSE {<<>>})
    /\ recipes = <<>>
    /\ loaded = FALSE
    /\ loads = 0
    /\ pc = "idle"
    /\ ret = NoCall
    /\ readers = NoReaders
    /\ disk = NoPdf

\* a collection that has loaded its one document
InitRecipe ==
    /\ root_exists = TRUE
    /\ files \in {OneFile(DishPath, d) : d \in BodyDocs \cup ServingsDocs}
                 \cup {OneFile(p, d) : p \in {DishPath, ShrimpPath, Negroni.path},
                                        d \in HeaderDocs}
    /\ recipes = load_recipes(files, FALSE, "parses", <<>>).recipes
    /\ loaded = TRUE
    /\ loads = 1
    /\ pc = "idle"
    /\ ret = NoCall
    /\ readers = NoReaders
    /\ disk = NoPdf

(***************************************************************************)
(* The calls                                                               *)
(***************************************************************************)
\* discover_recipes that takes a missing directory for an empty one (a faulty
\* variant, for C13)
discover_recipes_lenient(exists, found) == [raised |-> "none", value |-> found]

\* RecipeCollection.discover_recipes: the files found, or the exception
discover_recipes(exists, found) ==
    IF exists THEN [raised |-> "none", value |-> found]
    ELSE [raised |-> "FileNotFoundError", value |-> <<>>]

\* RecipeCollection.load_recipes(use_cooklang_parser)
LoadRecipes ==
    /\ pc = "idle"
    /\ loads < MaxLoads
    /\ \E use_cooklang_parser \in BOOLEAN, cooklang \in {"absent", "fails", "parses"} :
          \E d \in {discover_recipes(root_exists, files)} :
             IF d.raised = "none"
             THEN \E r \in {load_recipes(d.value, use_cooklang_parser, cooklang, recipes)} :
                      /\ recipes' = r.recipes
                      /\ loaded' = TRUE
                      /\ ret' = Call("load_recipes", use_cooklang_parser, "none",
                                     r.recipes, r.log)
             ELSE /\ UNCHANGED <<recipes, loaded>>
                  /\ ret' = Call("load_recipes", use_cooklang_parser, d.raised, <<>>, <<>>)
    /\ loads' = loads + 1
    /\ pc' = "returned"
    /\ UNCHANGED <<root_exists, files, readers, disk>>

\* RecipeCollection.validate_all()
ValidateAll ==
    /\ pc = "idle"
    /\ loaded \/ loads < MaxLoads
    /\ \E d \in {discover_recipes(root_exists, files)} :
          IF loaded \/ d.raised = "none"
          THEN \E r \in {IF loaded THEN [recipes |-> recipes, log |-> <<>>]
                         ELSE load_recipes(d.value, FALSE, "parses", recipes)} :
                   /\ recipes' = r.recipes
                   /\ loaded' = TRUE
                   /\ ret' = Call("validate_all", 0, "none",
                                  validate_all(r.recipes, 1, <<>>), r.log)
          ELSE /\ UNCHANGED <<recipes, loaded>>
               /\ ret' = Call("validate_all", 0, d.raised, <<>>, <<>>)
    /\ loads' = IF loaded THEN loads ELSE loads + 1
    /\ pc' = "returned"
    /\ UNCHANGED <<root_exists, files, readers, disk>>

\* a call that only reads the collection
Query(op, arg, raised, value) ==
    /\ pc = "idle"
    /\ ret' = Call(op, arg, raised, value, <<>>)
    /\ pc' = "returned"
    /\ UNCHANGED <<root_exists, files, recipes, loaded, loads, readers, disk>>

GetByCategory == Query("get_by_category", 0, "none", get_by_category(recipes, 1, <<>>))

GetByTag ==
    \E r \in {get_by_tag(recipes, 1, <<>>)} : Query("get_by_tag", 0, r.raised, r.value)

GetByCuisine == Query("get_by_cuisine", 0, "none", get_by_cuisine(recipes, 1, <<>>))

GetBySpirit == Query("get_by_spirit", 0, "none", get_by_spirit(recipes, 1, <<>>))

FoodRecipes == Query("food_recipes", 0, "none", food_recipes(recipes))

CocktailRecipes == Query("cocktail_recipes", 0, "none", cocktail_recipes(recipes))

\* Recipe.validate() of the k-th recipe
Validate ==
    \E k \in DOMAIN recipes : Query("validate", k, "none", validate(recipes[k]))

\* PDFGenerator.parse_recipe_content(recipe)
PdfParseRecipeContent ==
    \E k \in DOMAIN recipes :
        Query("pdf_parse_recipe_content", k, "none",
              pdf_parse_recipe_content(recipes[k].raw_content))

\* PDFGenerator.format_recipe_latex(recipe)
FormatRecipeLatex ==
    \E k \in DOMAIN recipes :
        \E f \in {format_recipe_latex(recipes[k])} :
            Query("format_recipe_latex", k, f.raised, f.lines)

\* recipe.servings
Servings ==
    \E k \in DOMAIN recipes :
        Query("servings", k, servings(recipes[k]).raised, servings(recipes[k]).value)

\* SiteGenerator.parse_recipe_content(recipe)
SiteParseRecipeContent ==
    \E k \in DOMAIN recipes :
        Query("site_parse_recipe_content", k, "none",
              site_parse_recipe_content(recipes[k].raw_content))

\* the caller takes the result and goes on
Return ==
    /\ pc = "returned"
    /\ pc' = "idle"
    /\ ret' = NoCall
    /\ UNCHANGED <<root_exists, files, recipes, loaded, loads, readers, disk>>

\* the calls on one Recipe
NextRecipe ==
    \/ Validate
    \/ Servings
    \/ PdfParseRecipeContent
    \/ FormatRecipeLatex
    \/ SiteParseRecipeContent
    \/ Return

\* the calls on the collection (the calls on one Recipe are those of
\* NextRecipe)
Next ==
    \/ LoadRecipes
    \/ ValidateAll
    \/ GetByCategory
    \/ GetByTag
    \/ GetByCuisine
    \/ GetBySpirit
    \/ FoodRecipes
    \/ CocktailRecipes
    \/ Return

Spec == Init /\ [][Next]_vars

SpecRecipe == InitRecipe /\ [][NextRecipe]_vars


(***************************************************************************)
(* The build commands: each run makes its own collection over the          *)
(* directory                                                               *)
(***************************************************************************)
\* the files a recipes directory may hold when a command runs
BuildFiles == Files \cup {Plain}

InitBuild ==
    /\ root_exists \in BOOLEAN
    /\ files \in (IF root_exists THEN InjSeqsUpTo(BuildFiles, MaxFiles) ELSE {<<>>})
    /\ recipes = <<>>
    /\ loaded = FALSE
    /\ loads = 0
    /\ pc = "idle"
    /\ ret = NoCall
    /\ readers = NoReaders
    /\ disk = NoPdf

\* RecipeCollection(recipes_dir) and load_recipes(use_cooklang_parser=False)
\* of a generator or command, then what it does with the collection (value);
\* failure is what is left of the run when the load raises
Run(op, d, r, value, failure) ==
    /\ pc = "idle"
    /\ IF d.raised = "none"
       THEN /\ recipes' = r.recipes
            /\ loaded' = TRUE
            /\ ret' = Call(op, 0, value.raised, value, r.log)
       ELSE /\ recipes' = <<>>
            /\ loaded' = FALSE
            /\ ret' = Call(op, 0, d.raised, failure, <<>>)
    /\ pc' = "returned"
    /\ UNCHANGED <<root_exists, files, loads, readers, disk>>

\* PDFGenerator().generate_latex()
GenerateLatex ==
    \E d \in {discover_recipes(root_exists, files)} :
       \E r \in {load_recipes(d.value, FALSE, "parses", <<>>)} :
          Run("generate_latex", d, r, generate_latex(r.recipes), <<>>)

\* SiteGenerator().generate_all()
GenerateSite ==
    \E d \in {discover_recipes(root_exists, files)} :
       \E r \in {load_recipes(d.value, FALSE, "parses", <<>>)} :
          Run("site_generate_all", d, r, site_generate_all(r.recipes), <<>>)

\* build.py validate: validate_recipes() and the exit of main; an exception
\* that nothing catches ends the process with status 1
ValidateCommand ==
    \E d \in {discover_recipes(root_exists, files)} :
       \E r \in {load_recipes(d.value, FALSE, "parses", <<>>)} :
          \E v \in {validate_recipes(r.recipes)} :
             Run("validate_recipes", d, r,
                 [raised |-> "none", printed |-> v.printed,
                  exit |-> ExitStatus(v.success)],
                 [printed |-> <<>>, exit |-> ExitStatus(FALSE)])

NextBuild ==
    \/ GenerateLatex
    \/ GenerateSite
    \/ ValidateCommand
    \/ Return

SpecBuild == InitBuild /\ [][NextBuild]_vars

(***************************************************************************)
(* Reader threads on one loaded collection: each call of a grouping view,  *)
(* of food_recipes / cocktail_recipes or of validate_all walks             *)
(* self.recipes one recipe at a time, and the threads interleave between   *)
(* the recipes                                                             *)
(***************************************************************************)
\* the loadable documents the readers' collection may hold
ReaderFiles == {Soup, Negroni, Spritz, Tea}

ReadOps == {"get_by_category", "get_by_tag", "get_by_cuisine", "get_by_spirit",
            "food_recipes", "cocktail_recipes", "validate_all"}

\* a loaded collection and its reader threads, none of them in a call
InitReaders ==
    /\ root_exists = TRUE
    /\ files \in InjSeqsUpTo(ReaderFiles, MaxReaderFiles)
    /\ recipes = load_recipes(files, FALSE, "parses", <<>>).recipes
    /\ loaded = TRUE
    /\ loads = 1
    /\ pc = "idle"
    /\ ret = NoCall
    /\ readers = NoReaders
    /\ disk = NoPdf

\* what an operation that cannot raise returns
Built(value) == [raised |-> "none", value |-> value]

\* the whole of an operation over a recipe list, from its k-th recipe on and
\* from what it has built (acc)
Rest(op, recs, k, acc) ==
    CASE op = "get_by_category"  -> Built(get_by_category(recs, k, acc))
      [] op = "get_by_tag"       -> get_by_tag(recs, k, acc)
      [] op = "get_by_cuisine"   -> Built(get_by_cuisine(recs, k, acc))
      [] op = "get_by_spirit"    -> Built(get_by_spirit(recs, k, acc))
      [] op = "validate_all"     -> Built(validate_all(recs, k, acc))
      [] op = "food_recipes"     ->
            Built(acc \o SelectSeq(food_recipes(recs), LAMBDA p : p >= k))
      [] op = "cocktail_recipes" ->
            Built(acc \o SelectSeq(cocktail_recipes(recs), LAMBDA p : p >= k))

\* one pass of the loop of an operation, for the k-th recipe: the loop run
\* over the list cut after that recipe
Iteration(op, recs, k, acc) == Rest(op, SubSeq(recs, 1, k), k, acc)

\* one mapping kept for all the calls of an operation: a call starts from
\* what a call of the same operation in progress has put there (a faulty
\* variant, for C18)
FreshShared(op) ==
    LET U == {u \in Readers : readers[u].op = op /\ ~readers[u].done}
    IN  IF U = {} THEN <<>> ELSE readers[CHOOSE u \in U : TRUE].acc

\* the mapping (or list) a call builds in: a new empty one
Fresh(op) == <<>>

\* a reader calls an operation of the loaded collection (validate_all does
\* not load a loaded collection)
Begin(t, op) ==
    /\ loaded
    /\ readers[t].op = "none"
    /\ readers' = [readers EXCEPT ![t] = [op |-> op, k |-> 1, acc |-> Fresh(op),
                                          raised |-> "none", done |-> FALSE]]
    /\ UNCHANGED <<root_exists, files, recipes, loaded, loads, pc, ret, disk>>

\* the call of a reader handles the next recipe of self.recipes
Step(t) ==
    /\ readers[t].op # "none"
    /\ ~readers[t].done
    /\ readers[t].k <= Len(recipes)
    /\ \E r \in {Iteration(readers[t].op, recipes, readers[t].k, readers[t].acc)} :
          readers' = [readers EXCEPT ![t] =
                         IF r.raised = "none"
                         THEN [@ EXCEPT !.k = @ + 1, !.acc = r.value]
                         ELSE [@ EXCEPT !.acc = <<>>, !.raised = r.raised, !.done = TRUE]]
    /\ UNCHANGED <<root_exists, files, recipes, loaded, loads, pc, ret, disk>>

\* the loop has ended: the call returns what it has built
End(t) ==
    /\ readers[t].op # "none"
    /\ ~readers[t].done
    /\ readers[t].k > Len(recipes)
    /\ readers' = [readers EXCEPT ![t].done = TRUE]
    /\ UNCHANGED <<root_exists, files, recipes, loaded, loads, pc, ret, disk>>

\* the reader takes the result and is free for its next call
Take(t) ==
    /\ readers[t].done
    /\ readers' = [readers EXCEPT ![t] = Waiting]
    /\ UNCHANGED <<root_exists, files, recipes, loaded, loads, pc, ret, disk>>

NextReaders ==
    \/ \E t \in Readers, op \in ReadOps : Begin(t, op)
    \/ \E t \in Readers : Step(t)
    \/ \E t \in Readers : End(t)
    \/ \E t \in Readers : Take(t)

SpecReaders == InitReaders /\ [][NextReaders]_vars

(***************************************************************************)
(* escape_latex on its own: the renderer calls it on titles, metadata,     *)
(* display strings and steps                                               *)
(***************************************************************************)
\* the characters of the texts: the ten special characters, a letter and a
\* space
EscapeChars == {"&", "%", "$", "#", "_", "{", "}", "~", "^", "\\", "a", " "}

\* the arguments: None and the texts of at most MaxEscapeLen characters
EscapeArgs == {None} \cup {StrVal(t) : t \in SeqsUpTo(EscapeChars, MaxEscapeLen)}

\* a generator that has loaded nothing yet
InitEscape ==
    /\ root_exists = TRUE
    /\ files = <<>>
    /\ recipes = <<>>
    /\ loaded = FALSE
    /\ loads = 0
    /\ pc = "idle"
    /\ ret = NoCall
    /\ readers = NoReaders
    /\ disk = NoPdf

\* PDFGenerator.escape_latex(text):  not text  holds of None as of ""
EscapeLatex ==
    \E text \in EscapeArgs :
        Query("escape_latex", text, "none",
              IF ~Truthy(text) THEN <<>> ELSE escape_latex(text.s))

NextEscape ==
    \/ EscapeLatex
    \/ Return

SpecEscape == InitEscape /\ [][NextEscape]_vars

(***************************************************************************)
(* The pdf, site and all commands of build.py, run one after the other in  *)
(* one working directory: output/cookbook.pdf and docs/cookbook.pdf stay   *)
(* on the disk from one run to the next (the docs directory exists)        *)
(***************************************************************************)
\* what one pdflatex run does: it ends with status 0 and has written the
\* PDF, it ends with another status and has written the PDF or has not, the
\* program is not installed, it is stopped at the timeout
PdflatexOutcomes == {"ok", "errors_pdf_written", "errors_no_pdf", "not_found", "timeout"}

\* the outcomes of the two runs of compile_pdf
Passes == [1..2 -> PdflatexOutcomes]

\* the documents of the recipes directory of these runs
PdfFiles == {<<>>, <<Soup>>, <<Tea>>}

InitPdf ==
    /\ root_exists \in BOOLEAN
    /\ files \in (IF root_exists THEN PdfFiles ELSE {<<>>})
    /\ recipes = <<>>
    /\ loaded = FALSE
    /\ loads = 0
    /\ pc = "idle"
    /\ ret = NoCall
    /\ readers = NoReaders
    /\ disk = NoPdf

\* PDFGenerator.compile_pdf from its i-th run on: exists says whether
\* output/cookbook.pdf exists, written whether this call has written it
RECURSIVE compile_pdf(_, _, _, _)
compile_pdf(passes, i, exists, written) ==
    IF i > Len(passes) THEN [result |-> TRUE, written |-> written]
    ELSE CASE passes[i] \in {"ok", "errors_pdf_written"} ->
                 compile_pdf(passes, i + 1, TRUE, TRUE)
           [] passes[i] = "errors_no_pdf" ->
                 IF ~exists THEN [result |-> FALSE, written |-> written]
                 ELSE compile_pdf(passes, i + 1, exists, written)
           [] OTHER -> [result |-> FALSE, written |-> written]

\* generate_pdf(): PDFGenerator() loads the recipes (d, recs), generate_all
\* writes the LaTeX and compiles it; output_pdf is the run whose PDF is in
\* the output directory, run is this run
generate_pdf(d, recs, passes, output_pdf, run) ==
    IF d.raised # "none"
    THEN [raised |-> d.raised, compiled |-> "not run", output_pdf |-> output_pdf]
    ELSE IF generate_latex(recs).raised # "none"
    THEN [raised |-> generate_latex(recs).raised, compiled |-> "not run",
          output_pdf |-> output_pdf]
    ELSE [raised |-> "none",
          compiled |-> IF compile_pdf(passes, 1, output_pdf # 0, FALSE).result
                       THEN "true" ELSE "false",
          output_pdf |-> IF compile_pdf(passes, 1, output_pdf # 0, FALSE).written
                         THEN run ELSE output_pdf]

\* build_pdf: True unless generate_pdf has raised
build_pdf(g) == g.raised = "none"

\* generate_site(): SiteGenerator() loads the recipes, generate_all cleans
\* the docs directory and writes the pages
generate_site(d, recs) ==
    IF d.raised # "none" THEN [raised |-> d.raised, cleaned |-> FALSE]
    ELSE [raised |-> site_generate_all(recs).raised, cleaned |-> TRUE]

\* build_site: True unless generate_site has raised
build_site(s) == s.raised = "none"

\* copy_pdf_to_site: the PDF of the output directory, if there is one, is
\* copied to the docs directory
copy_pdf_to_site(output_pdf, docs_pdf) ==
    IF output_pdf # 0 THEN [copied |-> TRUE, docs_pdf |-> output_pdf]
    ELSE [copied |-> FALSE, docs_pdf |-> docs_pdf]

\* what is left of a command: the collection of its last generator, the
\* disk, and what the command has done and returned
Command(op, passes, d, r, output_pdf, docs_pdf, result) ==
    /\ pc = "idle"
    /\ disk.run < MaxRuns
    /\ recipes' = IF d.raised = "none" THEN r.recipes ELSE <<>>
    /\ loaded' = (d.raised = "none")
    /\ disk' = [run |-> disk.run + 1, output_pdf |-> output_pdf, docs_pdf |-> docs_pdf]
    /\ ret' = Call(op, passes, "none", result, <<>>)
    /\ pc' = "returned"
    /\ UNCHANGED <<root_exists, files, loads, readers>>

\* build.py pdf: build_pdf(), then copy_pdf_to_site() if it has succeeded
PdfCommand ==
    \E passes \in Passes :
    \E d \in {discover_recipes(root_exists, files)} :
    \E r \in {load_recipes(d.value, FALSE, "parses", <<>>)} :
    \E g \in {generate_pdf(d, r.recipes, passes, disk.output_pdf, disk.run + 1)} :
    \E c \in {IF build_pdf(g) THEN copy_pdf_to_site(g.output_pdf, disk.docs_pdf)
              ELSE [copied |-> FALSE, docs_pdf |-> disk.docs_pdf]} :
        Command("pdf", passes, d, r, g.output_pdf, c.docs_pdf,
                [compiled |-> g.compiled, pdf_success |-> build_pdf(g),
                 site_success |-> TRUE, copied |-> c.copied,
                 events |-> (IF g.compiled = "not run" THEN <<>> ELSE <<"compile">>)
                            \o (IF c.copied THEN <<"copy">> ELSE <<>>),
                 message |-> "none",
                 exit |-> ExitStatus(build_pdf(g))])

\* build.py site: build_site()
SiteCommand ==
    \E d \in {discover_recipes(root_exists, files)} :
    \E r \in {load_recipes(d.value, FALSE, "parses", <<>>)} :
    \E s \in {generate_site(d, r.recipes)} :
        Command("site", <<>>, d, r, disk.output_pdf,
                IF s.cleaned THEN 0 ELSE disk.docs_pdf,
                [compiled |-> "not run", pdf_success |-> TRUE,
                 site_success |-> build_site(s), copied |-> FALSE,
                 events |-> IF s.cleaned THEN <<"clean">> ELSE <<>>,
                 message |-> "none",
                 exit |-> ExitStatus(build_site(s))])

\* build.py all: build_all(): the site, then the PDF, then the copy if
\* build_pdf has succeeded
AllCommand ==
    \E passes \in Passes :
    \E d \in {discover_recipes(root_exists, files)} :
    \E r \in {load_recipes(d.value, FALSE, "parses", <<>>)} :
    \E s \in {generate_site(d, r.recipes)} :
    \E g \in {generate_pdf(d, r.recipes, passes, disk.output_pdf, disk.run + 1)} :
    \E c \in {IF build_pdf(g)
              THEN copy_pdf_to_site(g.output_pdf, IF s.cleaned THEN 0 ELSE disk.docs_pdf)
              ELSE [copied |-> FALSE,
                    docs_pdf |-> IF s.cleaned THEN 0 ELSE disk.docs_pdf]} :
        Command("all", passes, d, r, g.output_pdf, c.docs_pdf,
                [compiled |-> g.compiled, pdf_success |-> build_pdf(g),
                 site_success |-> build_site(s), copied |-> c.copied,
                 events |-> (IF s.cleaned THEN <<"clean">> ELSE <<>>)
                            \o (IF g.compiled = "not run" THEN <<>> ELSE <<"compile">>)
                            \o (IF c.copied THEN <<"copy">> ELSE <<>>),
                 message |-> IF build_site(s) /\ build_pdf(g)
                             THEN "Build completed successfully"
                             ELSE "Build completed with errors",
                 exit |-> ExitStatus(build_site(s) /\ build_pdf(g))])

NextPdf ==
    \/ PdfCommand
    \/ SiteCommand
    \/ AllCommand
    \/ Return

SpecPdf == InitPdf /\ [][NextPdf]_vars

(***************************************************************************)
(* The vocabulary of the properties                                        *)
(***************************************************************************)
\* the last call was op and its result has not been taken yet
Returned(op) == pc = "returned" /\ ret.op = op

\* how the grammar classifies a trimmed body line
Kind(line) ==
    IF line = <<>> THEN "blank"
    ELSE IF startswith(line, <<"-", "-">>) THEN "comment"
    ELSE IF startswith(line, <<">", ">">>) THEN "section"
    ELSE "step"

\* the lines that stand for an instruction item, in document order
Items(lines) == SelectSeq(lines, LAMBDA l : Kind(l) \in {"section", "step"})

\* the instruction lines of a document
ItemLines(raw) == Items(BodyLines(raw))

\* a text without its markup tags
RECURSIVE StripTags(_, _)
StripTags(s, from) ==
    LET i == ScanNotIn(s, from, {"<"})
        c == ScanNotIn(s, i + 1, {">"})
    IN  IF i > Len(s) \/ c > Len(s) THEN SubSeq(s, from, Len(s))
        ELSE SubSeq(s, from, i - 1) \o StripTags(s, c + 1)

\* the ingredient annotations of the step lines, in document order
RECURSIVE Occurrences(_, _)
Occurrences(lines, k) ==
    IF k > Len(lines) THEN <<>>
    ELSE (IF Kind(lines[k]) = "step" THEN PdfIngredientMatches(lines[k], 1) ELSE <<>>)
         \o Occurrences(lines, k + 1)

\* the name an annotation is known by
NameKey(m) == lower(strip(m.name))

\* one display string per name, the first annotation of each name winning
FirstSeen(occ) ==
    LET first == SelectSeq([k \in DOMAIN occ |-> k],
                           LAMBDA k : \A j \in 1..(k - 1) : NameKey(occ[j]) # NameKey(occ[k]))
    IN  [i \in DOMAIN first |->
            Display(strip(occ[first[i]].name), strip(occ[first[i]].qty))]

\* the registry the document calls for
ExpectedRegistry(raw) == FirstSeen(Occurrences(BodyLines(raw), 1))

(***************************************************************************)
(* C1                                                                      *)
(***************************************************************************)
\* C1: the ingredient registry holds one entry per name, names compared
\* case-insensitively, and the first annotation of a name decides the entry:
\* a later annotation of the same name, whatever its case or quantity, adds
\* nothing.  The PDF parser returns the entries escaped for LaTeX, the site
\* parser returns them as they are.
C1_FirstSeenWins ==
    /\ Returned("pdf_parse_recipe_content") =>
          LET expected == ExpectedRegistry(recipes[ret.arg].raw_content)
          IN  ret.value.ingredients = [k \in DOMAIN expected |-> escape_latex(expected[k])]
    /\ Returned("site_parse_recipe_content") =>
          ret.value.unique_ingredients = ExpectedRegistry(recipes[ret.arg].raw_content)

(***************************************************************************)
(* C2                                                                      *)
(***************************************************************************)
C2Line == <<"A","d","d"," ","@","f","l","o","u","r","{","2","%","c","u","p","s","}"," ","a","n","d"," ","m","i","x"," ","w","i","t","h"," ","#","w","h","i","s","k"," ","f","o","r"," ","~","{","3","0","%","s","e","c","o","n","d","s","}">>
C2Text == <<"A","d","d"," ","f","l","o","u","r"," ","a","n","d"," ","m","i","x"," ","w","i","t","h"," ","w","h","i","s","k"," ","f","o","r"," ","3","0"," ","s","e","c","o","n","d","s">>

\* C2: the line "Add @flour{2%cups} and mix with #whisk for ~{30%seconds}"
\* is rendered as the step "Add flour and mix with whisk for 30 seconds":
\* the PDF parser returns exactly that text, the site parser returns that
\* text with the three tokens wrapped in markup.
C2_ResolutionExample ==
    /\ Returned("pdf_parse_recipe_content") =>
          LET L == ItemLines(recipes[ret.arg].raw_content)
          IN  \A k \in DOMAIN L :
                 L[k] = C2Line =>
                    /\ k \in DOMAIN ret.value.instructions
                    /\ ret.value.instructions[k] = [kind |-> "step", text |-> C2Text]
    /\ Returned("site_parse_recipe_content") =>
          LET L == ItemLines(recipes[ret.arg].raw_content)
          IN  \A k \in DOMAIN L :
                 L[k] = C2Line =>
                    /\ k \in DOMAIN ret.value.instructions
                    /\ StripTags(ret.value.instructions[k], 1) = C2Text
                    /\ ret.value.instructions[k] # C2Text

\* the PDF parser has returned the step of the example line
C2_Witness ==
    /\ Returned("pdf_parse_recipe_content")
    /\ \E k \in DOMAIN ret.value.instructions :
          /\ k \in DOMAIN ItemLines(recipes[ret.arg].raw_content)
          /\ ItemLines(recipes[ret.arg].raw_content)[k] = C2Line
          /\ ret.value.instructions[k].text = C2Text

(***************************************************************************)
(* C3                                                                      *)
(***************************************************************************)
\* a step text in which the registered annotations of its line are resolved:
\* every name is there, and no brace, quantity text or marker character is
\* left
Resolved(line, text) ==
    \A m \in Range(PdfIngredientMatches(line, 1)) :
        /\ Contains(text, strip(m.name))
        /\ Range(text) \cap {"{", "}"} = {}
        /\ strip(m.qty) # <<>> => ~Contains(text, m.qty)
        /\ Range(text) \cap {"@", "#", "~"} = {}

\* C3: in the text of a step every ingredient annotation is replaced by the
\* bare name: the braces, the quantity and the marker characters are gone,
\* whatever characters the name is made of.
C3_AnnotationsResolved ==
    /\ Returned("pdf_parse_recipe_content") =>
          LET L == ItemLines(recipes[ret.arg].raw_content)
          IN  \A k \in DOMAIN L :
                 Kind(L[k]) = "step" =>
                    /\ k \in DOMAIN ret.value.instructions
                    /\ Resolved(L[k], ret.value.instructions[k].text)
    /\ Returned("site_parse_recipe_content") =>
          LET L == ItemLines(recipes[ret.arg].raw_content)
          IN  \A k \in DOMAIN L :
                 Kind(L[k]) = "step" =>
                    /\ k \in DOMAIN ret.value.instructions
                    /\ Resolved(L[k], StripTags(ret.value.instructions[k], 1))

(***************************************************************************)
(* C4                                                                      *)
(***************************************************************************)
\* a file the collection can turn into a Recipe
Loadable(f) == f.readable /\ NewRecipe(f.path, f.raw_content).raised = "none"

Unloadable(f) == ~Loadable(f)

\* the Recipes of the loadable files, in discovery order
LoadableRecipes(fs) ==
    LET good == SelectSeq(fs, Loadable)
    IN  [k \in DOMAIN good |-> NewRecipe(good[k].path, good[k].raw_content).recipe]

\* the paths of the other files, in discovery order
SkippedPaths(fs) ==
    LET bad == SelectSeq(fs, Unloadable)
    IN  [k \in DOMAIN bad |-> bad[k].path]

\* the paths the error messages of an output name, in order
ErrorPaths(out) ==
    LET e == SelectSeq(out, LAMBDA m : m.kind = "Error loading recipe")
    IN  [k \in DOMAIN e |-> e[k].file]

\* C4: a load over an existing directory never raises because of a file: a
\* file that cannot be read or whose header cannot be parsed is skipped with
\* one error message naming it, and every other file becomes a Recipe, added
\* to the collection in discovery order.  Without the optional parser the
\* error messages are the whole output.  (What a second load does to the
\* recipes of the first is the subject of C20; here the recipes of a load
\* are the ones it adds.)
C4_LoadResilience ==
    [][(pc = "idle" /\ pc' = "returned" /\ ret'.op = "load_recipes" /\ root_exists) =>
          /\ ret'.raised = "none"
          /\ recipes' = recipes \o LoadableRecipes(files)
          /\ ErrorPaths(ret'.out) = SkippedPaths(files)
          /\ (ret'.arg = FALSE => Len(ret'.out) = Len(SkippedPaths(files)))]_vars

\* a load of three files, one of them with a header that does not parse
C4_Witness ==
    /\ Returned("load_recipes")
    /\ ret.raised = "none"
    /\ Len(files) = 3
    /\ Broken \in Range(files)
    /\ SkippedPaths(files) = <<Broken.path>>
    /\ Len(recipes) = 2
    /\ ErrorPaths(ret.out) = <<Broken.path>>

(***************************************************************************)
(* C5                                                                      *)
(***************************************************************************)
\* the rendered instructions as the grammar calls for them: a header per
\* section line, the steps between headers in one enumerated block
RECURSIVE ExpectedTokens(_, _, _)
ExpectedTokens(lines, k, open) ==
    IF k > Len(lines) THEN (IF open THEN <<"close">> ELSE <<>>)
    ELSE IF Kind(lines[k]) = "section"
    THEN (IF open THEN <<"close">> ELSE <<>>) \o <<"header">>
         \o ExpectedTokens(lines, k + 1, FALSE)
    ELSE (IF open THEN <<>> ELSE <<"open">>) \o <<"item">>
         \o ExpectedTokens(lines, k + 1, TRUE)

SiteToken(part) ==
    IF part = <<"<","o","l",">">> THEN "open"
    ELSE IF part = <<"<","/","o","l",">">> THEN "close"
    ELSE IF startswith(part, <<"<","l","i",">">>) THEN "item"
    ELSE IF startswith(part, <<"<","h","3">>) THEN "header"
    ELSE "other"

LatexToken(line) ==
    IF line = <<"\\","b","e","g","i","n","{","e","n","u","m","e","r","a","t","e","}">> THEN "open"
    ELSE IF line = <<"\\","e","n","d","{","e","n","u","m","e","r","a","t","e","}">> THEN "close"
    ELSE IF startswith(line, <<"\\","i","t","e","m"," ">>) THEN "item"
    ELSE IF startswith(line, <<"\\","s","u","b","s","e","c","t","i","o","n","*","{">>) THEN "header"
    ELSE "other"

\* the lines of a formatted recipe that follow its Instructions heading
AfterHeading(lines) ==
    LET H == {h \in DOMAIN lines : lines[h] = <<"{","\\","i","n","s","t","r","u","c","t","i","o","n","s","h","e","a","d","i","n","g"," ","I","n","s","t","r","u","c","t","i","o","n","s","}","\\","p","a","r">>}
    IN  IF H = {} THEN <<>>
        ELSE SubSeq(lines, (CHOOSE h \in H : \A g \in H : h <= g) + 1, Len(lines))

\* the structure of the instructions of a formatted recipe
LatexTokens(lines) ==
    SelectSeq([k \in DOMAIN AfterHeading(lines) |-> LatexToken(AfterHeading(lines)[k])],
              LAMBDA t : t # "other")

\* C5: the rendered instructions follow the sections of the document: each
\* section line gives one header, outside any enumerated block, and each
\* maximal run of steps between headers gives one enumerated block holding
\* exactly those steps; a line is a section only by its '>>' marker.
C5_SectionPartition ==
    /\ Returned("site_parse_recipe_content") =>
          LET parts == ret.value.instructions_parts
          IN  [k \in DOMAIN parts |-> SiteToken(parts[k])]
                 = ExpectedTokens(ItemLines(recipes[ret.arg].raw_content), 1, FALSE)
    /\ Returned("format_recipe_latex") =>
          LatexTokens(ret.value)
             = ExpectedTokens(ItemLines(recipes[ret.arg].raw_content), 1, FALSE)

(***************************************************************************)
(* C6                                                                      *)
(***************************************************************************)
\* a header field that is there and not empty
Present(r, key) == key \in DOMAIN r.metadata /\ Truthy(r.metadata[key])

\* the findings the rules call for, in the order of the rules
ExpectedFindings(r) ==
    (IF ~Present(r, <<"t","i","t","l","e">>) \/ r.metadata[<<"t","i","t","l","e">>] = StrVal(<<"U","n","t","i","t","l","e","d"," ","R","e","c","i","p","e">>)
     THEN <<Message(r, MissingTitle)>> ELSE <<>>)
    \o (IF r.is_cocktail /\ ~Present(r, <<"s","p","i","r","i","t","_","b","a","s","e">>)
        THEN <<Message(r, MissingSpiritBase)>> ELSE <<>>)
    \o (IF r.is_cocktail /\ ~Present(r, <<"g","l","a","s","s">>)
        THEN <<Message(r, MissingGlass)>> ELSE <<>>)
    \o (IF ~r.is_cocktail /\ ~Present(r, <<"c","u","i","s","i","n","e">>)
        THEN <<Message(r, MissingCuisine)>> ELSE <<>>)

\* the messages of a list that mention a word
Mentioning(msgs, word) == SelectSeq(msgs, LAMBDA m : Contains(m, word))

\* C6: validate never raises and returns, in this order, a title message iff
\* the title is missing or the placeholder, for a cocktail a spirit_base
\* message iff spirit_base is missing and a glass message iff glass is
\* missing, for a food recipe a cuisine message iff cuisine is missing, and
\* nothing else; a recipe of type cocktail without glass gets exactly one
\* message about glass and none about cuisine.
C6_ValidateRules ==
    Returned("validate") =>
       LET r == recipes[ret.arg]
       IN  /\ ret.raised = "none"
           /\ ret.value = ExpectedFindings(r)
           /\ (/\ Get(r.metadata, <<"t","y","p","e">>, None) = StrVal(<<"c","o","c","k","t","a","i","l">>)
               /\ <<"g","l","a","s","s">> \notin DOMAIN r.metadata)
                 => /\ Len(Mentioning(ret.value, <<"g","l","a","s","s">>)) = 1
                    /\ Mentioning(ret.value, <<"c","u","i","s","i","n","e">>) = <<>>

\* validate has returned for a cocktail that has a glass and no spirit_base,
\* and for nothing else to report
C6_Witness ==
    /\ Returned("validate")
    /\ recipes[ret.arg].is_cocktail
    /\ Present(recipes[ret.arg], <<"g","l","a","s","s">>)
    /\ Present(recipes[ret.arg], <<"t","i","t","l","e">>)
    /\ ret.value = <<Message(recipes[ret.arg], MissingSpiritBase)>>

(***************************************************************************)
(* C7                                                                      *)
(***************************************************************************)
\* the title of a section line
SectionTitle(line) == strip(SubSeq(line, 3, Len(line)))

\* no line that yields an item carries an ingredient annotation
OnlyCommentsAnnotate(lines) ==
    \A k \in DOMAIN lines :
        PdfIngredientMatches(lines[k], 1) # <<>> => Kind(lines[k]) \in {"comment", "section"}

\* C7: the body is read line by line: blank lines and lines starting with
\* '--' give nothing, every other line gives exactly one instruction item,
\* in document order; a line starting with '>>' gives a section item whose
\* title is the trimmed rest of the line, any other line gives a step; and
\* an annotation in a comment or section line registers no ingredient.
C7_LineClassification ==
    /\ Returned("pdf_parse_recipe_content") =>
          LET B == BodyLines(recipes[ret.arg].raw_content)
              L == Items(B)
              items == ret.value.instructions
          IN  /\ Len(items) = Len(L)
              /\ \A k \in DOMAIN L :
                    IF Kind(L[k]) = "section"
                    THEN items[k] = [kind |-> "section", text |-> SectionTitle(L[k])]
                    ELSE items[k].kind = "step"
              /\ OnlyCommentsAnnotate(B) => ret.value.ingredients = <<>>
    /\ Returned("site_parse_recipe_content") =>
          LET B == BodyLines(recipes[ret.arg].raw_content)
              L == Items(B)
              items == ret.value.instructions
          IN  /\ Len(items) = Len(L)
              /\ \A k \in DOMAIN L :
                    (Kind(L[k]) = "section")
                       <=> (items[k] = <<"<","h","3"," ","c","l","a","s","s","=","\"","s","e","c","t","i","o","n","-","h","e","a","d","e","r","\"",">">>
                                          \o SectionTitle(L[k]) \o <<"<","/","h","3",">">>)
              /\ OnlyCommentsAnnotate(B) => ret.value.unique_ingredients = <<>>

\* a document of a comment with an annotation and a section line has given
\* the section item alone and no ingredient
C7_Witness ==
    /\ Returned("pdf_parse_recipe_content")
    /\ \E j \in DOMAIN BodyLines(recipes[ret.arg].raw_content) :
          /\ Kind(BodyLines(recipes[ret.arg].raw_content)[j]) = "comment"
          /\ PdfIngredientMatches(BodyLines(recipes[ret.arg].raw_content)[j], 1) # <<>>
    /\ ret.value.instructions = <<[kind |-> "section", text |-> <<"S","a","u","c","e">>]>>
    /\ ret.value.ingredients = <<>>

(***************************************************************************)
(* C8                                                                      *)
(***************************************************************************)
\* the line that closes the header block of a document whose first line
\* opens one, 0 when there is no such block
HeaderClose(lines) ==
    LET C == {j \in 2..Len(lines) : strip(lines[j]) = <<"-", "-", "-">>}
    IN  IF lines # <<>> /\ strip(lines[1]) = <<"-", "-", "-">> /\ C # {}
        THEN CHOOSE j \in C : \A h \in C : j <= h
        ELSE 0

\* the key of a header line
HeaderKey(line) == strip(SubSeq(line, 1, KeyColon(line) - 1))

\* the value of a header line
HeaderValue(line) == YamlValue(strip(SubSeq(line, KeyColon(line) + 1, Len(line)))).value

\* the lines after position c that yield an item
ItemsAfter(lines, c) ==
    Items([k \in 1..(Len(lines) - c) |-> strip(lines[c + k])])

\* C8: a document that starts with a '---' line and has a later '---' line
\* has a header: the metadata are the key-value pairs of the lines between
\* the two, and the parsers see only the lines after the closing line.  A
\* document without such a block has empty metadata and the title
\* "Untitled Recipe".
C8_HeaderExtraction ==
    \A k \in DOMAIN recipes :
        LET lines == split_lines(recipes[k].raw_content)
            c     == HeaderClose(lines)
        IN  IF c > 0
            THEN /\ \A j \in 2..(c - 1) :
                       KeyColon(lines[j]) > 1 =>
                          /\ HeaderKey(lines[j]) \in DOMAIN recipes[k].metadata
                          /\ recipes[k].metadata[HeaderKey(lines[j])] = HeaderValue(lines[j])
                 /\ (Returned("pdf_parse_recipe_content") /\ ret.arg = k)
                       => Len(ret.value.instructions) = Len(ItemsAfter(lines, c))
                 /\ (Returned("site_parse_recipe_content") /\ ret.arg = k)
                       => Len(ret.value.instructions) = Len(ItemsAfter(lines, c))
            ELSE /\ DOMAIN recipes[k].metadata = {}
                 /\ title(recipes[k]) = StrVal(<<"U","n","t","i","t","l","e","d"," ","R","e","c","i","p","e">>)

(***************************************************************************)
(* C9                                                                      *)
(***************************************************************************)
\* the names a line uses without a quantity: '@name' with no braces, or
\* '@name{}'
QuantitylessNames(line) ==
    {lower(SubSeq(line, p + 1, ScanIn(line, p + 1, Word) - 1)) :
        p \in {q \in DOMAIN line :
                 /\ line[q] = "@"
                 /\ ScanIn(line, q + 1, Word) > q + 1
                 /\ \/ ScanIn(line, q + 1, Word) > Len(line)
                    \/ line[ScanIn(line, q + 1, Word)] \in Space
                    \/ startswith(SubSeq(line, ScanIn(line, q + 1, Word), Len(line)),
                                  <<"{", "}">>)}}

\* the names a line gives a quantity to
QuantifiedNames(line) ==
    {NameKey(m) : m \in {x \in Range(PdfIngredientMatches(line, 1)) : strip(x.qty) # <<>>}}

\* the registry shows the name n without a quantity
ListedBare(registry, n) ==
    /\ \E e \in DOMAIN registry : lower(registry[e]) = n
    /\ \A e \in DOMAIN registry : ~startswith(lower(registry[e]), n \o <<" ","(">>)

\* the names whose first use is without a quantity and that a later step
\* gives a quantity to
BareFirst(lines) ==
    {n \in UNION {QuantitylessNames(lines[i]) : i \in DOMAIN lines} :
        \E i \in DOMAIN lines : \E j \in DOMAIN lines :
            /\ i < j
            /\ Kind(lines[i]) = "step" /\ Kind(lines[j]) = "step"
            /\ n \in QuantitylessNames(lines[i])
            /\ n \in QuantifiedNames(lines[j])
            /\ \A h \in 1..i : n \notin QuantifiedNames(lines[h])}

\* C9: first-seen-wins covers the annotation without a quantity: a name
\* first used in a step as '@name' or '@name{}' is registered there, without
\* a quantity, and a later '@name{quantity}' does not change the entry.
C9_QuantitylessFirst ==
    /\ Returned("pdf_parse_recipe_content") =>
          \A n \in BareFirst(BodyLines(recipes[ret.arg].raw_content)) :
              ListedBare(ret.value.ingredients, n)
    /\ Returned("site_parse_recipe_content") =>
          \A n \in BareFirst(BodyLines(recipes[ret.arg].raw_content)) :
              ListedBare(ret.value.unique_ingredients, n)

(***************************************************************************)
(* C10                                                                     *)
(***************************************************************************)
\* the tags a recipe declares
TagsOf(r) ==
    IF <<"t","a","g","s">> \in DOMAIN r.metadata /\ r.metadata[<<"t","a","g","s">>].t = "list"
    THEN Range(r.metadata[<<"t","a","g","s">>].xs)
    ELSE {}

\* the positions of the recipes that declare a tag, in collection order
Tagged(t) ==
    SelectSeq([k \in DOMAIN recipes |-> k], LAMBDA k : t \in TagsOf(recipes[k]))

\* C10: get_by_tag returns, for any loaded collection, a grouping in which a
\* recipe is listed under a tag iff it declares the tag; every tag some
\* recipe declares is a key, no key is listed empty, and the recipes under a
\* key are in collection order.
C10_TagGrouping ==
    Returned("get_by_tag") =>
       /\ ret.raised = "none"
       /\ DictKeys(ret.value) = UNION {TagsOf(recipes[k]) : k \in DOMAIN recipes}
       /\ \A t \in DictKeys(ret.value) : DictGet(ret.value, t) = Tagged(t)

(***************************************************************************)
(* C11                                                                     *)
(***************************************************************************)
\* the positions of every list of a grouping, one after the other
RECURSIVE Listed(_, _)
Listed(d, i) == IF i > Len(d) THEN <<>> ELSE d[i].value \o Listed(d, i + 1)

\* how often a position is listed in a grouping
TimesListed(d, k) == Len(SelectSeq(Listed(d, 1), LAMBDA x : x = k))

WithFindings == {k \in DOMAIN recipes : validate(recipes[k]) # <<>>}

\* C12: the mapping validate_all returns has one key per document path of a
\* loaded recipe whose validate() list is not empty, and no other key; each
\* key is mapped to that list, in the order of validate(); no key is mapped
\* to an empty list.
C12_ValidateAllMapping ==
    (Returned("validate_all") /\ ret.raised = "none") =>
       /\ DictKeys(ret.value) = {PathStr(recipes[k].filepath) : k \in WithFindings}
       /\ Len(ret.value) = Cardinality(DictKeys(ret.value))
       /\ \A k \in WithFindings :
             DictGet(ret.value, PathStr(recipes[k].filepath)) = validate(recipes[k])
       /\ \A i \in DOMAIN ret.value : ret.value[i].value # <<>>

\* validate_all has returned for a collection of a recipe with findings and
\* a recipe with none
C12_Witness ==
    /\ Returned("validate_all")
    /\ ret.raised = "none"
    /\ WithFindings # {}
    /\ \E k \in DOMAIN recipes : validate(recipes[k]) = <<>>
    /\ Len(ret.value) = Cardinality(WithFindings)

(***************************************************************************)
(* C13                                                                     *)
(***************************************************************************)
\* a call that has to discover the files: load_recipes, or validate_all on a
\* collection that is not loaded
DiscoveringCall ==
    /\ pc = "idle" /\ pc' = "returned"
    /\ \/ ret'.op = "load_recipes"
       \/ ret'.op = "validate_all" /\ ~loaded

\* C13: when the recipes root does not exist, load_recipes and validate_all
\* on an unloaded collection raise the directory-not-found error, the recipe
\* list stays as it is and the collection is not marked loaded; when the
\* root exists they return normally, whatever the documents hold.
C13_MissingRootOnly ==
    [][DiscoveringCall =>
          IF root_exists
          THEN ret'.raised = "none" /\ loaded'
          ELSE /\ ret'.raised = "FileNotFoundError"
               /\ recipes' = recipes
               /\ ~loaded']_vars

\* a load over a missing root has raised, and nothing is loaded
C13_Witness ==
    /\ Returned("load_recipes")
    /\ ~root_exists
    /\ ret.raised = "FileNotFoundError"
    /\ recipes = <<>>
    /\ ~loaded

(***************************************************************************)
(* C14                                                                     *)
(***************************************************************************)
\* how often the recipe at position k is formatted in the parts of a document
TimesFormatted(parts, k) ==
    Len(SelectSeq(parts, LAMBDA p : p.kind = "recipe" /\ p.recipe = k))

\* C14: a generation run produces output for every loaded recipe: each
\* recipe of the collection is formatted exactly once in the LaTeX document,
\* cocktails without a spirit_base and recipes with validation findings
\* included, and each recipe has its recipe page in the generated site.
C14_AllLoadedGenerated ==
    /\ (Returned("generate_latex") /\ loaded) =>
          /\ ret.raised = "none"
          /\ \A k \in DOMAIN recipes : TimesFormatted(ret.value.parts, k) = 1
    /\ (Returned("site_generate_all") /\ loaded) =>
          /\ ret.raised = "none"
          /\ \A k \in DOMAIN recipes :
                \E i \in DOMAIN ret.value.pages : ret.value.pages[i].value = k

(***************************************************************************)
(* C15                                                                     *)
(***************************************************************************)
\* a header that gives no tags: no tags key, or the key without a value
NoTagsGiven(r) ==
    <<"t","a","g","s">> \in DOMAIN r.metadata => r.metadata[<<"t","a","g","s">>] = None

\* C15: the tags of every loaded recipe are a list of strings, whatever the
\* header holds for tags; they are the empty list when no tags are given;
\* and get_by_tag iterates them without raising.
C15_TagsIsList ==
    /\ \A k \in DOMAIN recipes :
          /\ tags(recipes[k]).t = "list"
          /\ \A j \in DOMAIN tags(recipes[k]).xs : tags(recipes[k]).xs[j].t = "str"
          /\ NoTagsGiven(recipes[k]) => tags(recipes[k]) = ListVal(<<>>)
    /\ Returned("get_by_tag") => ret.raised = "none"

(***************************************************************************)
(* C16                                                                     *)
(***************************************************************************)
\* int() accepts the value
IntegerCoercible(v) == ToInt(v).raised = "none"

\* C16: the servings accessor never raises: it returns the integer when the
\* servings value of the header is integer-coercible, and None when the key
\* is missing or its value is not integer-coercible.
C16_ServingsNeverRaises ==
    Returned("servings") =>
       LET r == recipes[ret.arg]
       IN  /\ ret.raised = "none"
           /\ IF <<"s","e","r","v","i","n","g","s">> \in DOMAIN r.metadata
                 /\ IntegerCoercible(r.metadata[<<"s","e","r","v","i","n","g","s">>])
              THEN ret.value = ToInt(r.metadata[<<"s","e","r","v","i","n","g","s">>]).value
              ELSE ret.value = None

(***************************************************************************)
(* C17                                                                     *)
(***************************************************************************)
\* the header declares  type: cocktail
DeclaresCocktail(r) ==
    <<"t","y","p","e">> \in DOMAIN r.metadata /\ r.metadata[<<"t","y","p","e">>] = StrVal(CocktailType)

\* the document is stored in a cocktail group: one of the directories that
\* contain it is the cocktails directory
InCocktailGroup(filepath) ==
    \E i \in 1..(Len(filepath) - 1) : filepath[i] = CocktailsDir

\* C17: a recipe is a cocktail iff its header declares type cocktail or it
\* is stored in a cocktail group; its category is the name of the directory
\* that holds it; and a document in another group without the declaration
\* is validated as food: by the cuisine rule, not by the cocktail rules.
C17_CocktailByTypeOrGroup ==
    /\ \A k \in DOMAIN recipes :
          LET r == recipes[k]
          IN  /\ r.is_cocktail <=> (DeclaresCocktail(r) \/ InCocktailGroup(r.filepath))
              /\ r.category = r.filepath[Len(r.filepath) - 1]
    /\ Returned("validate") =>
          LET r == recipes[ret.arg]
          IN  (~DeclaresCocktail(r) /\ ~InCocktailGroup(r.filepath)) =>
                 /\ Message(r, MissingCuisine) \in Range(ret.value) <=> ~Truthy(cuisine(r))
                 /\ Message(r, MissingSpiritBase) \notin Range(ret.value)
                 /\ Message(r, MissingGlass) \notin Range(ret.value)

(***************************************************************************)
(* C18                                                                     *)
(***************************************************************************)
\* what an operation returns when it runs alone on a recipe list
Alone(op, recs) == Rest(op, recs, 1, <<>>)

\* C18: reader threads on a loaded collection do not disturb each other:
\* whatever the interleaving, a call has built, recipe after recipe, exactly
\* what the operation run alone builds over the recipes it has handled (so
\* it starts from a fresh mapping and returns what it returns alone), and
\* the recipe list, with every field of every Recipe, and the loaded flag
\* stay what the load has left.
C18_ConcurrentReadsSafe ==
    /\ loaded
    /\ recipes = load_recipes(files, FALSE, "parses", <<>>).recipes
    /\ \A t \in Readers :
          LET c == readers[t]
          IN  /\ (c.op # "none" /\ ~c.done) =>
                    /\ c.raised = "none"
                    /\ Built(c.acc) = Alone(c.op, SubSeq(recipes, 1, c.k - 1))
              /\ (c.op # "none" /\ c.done) =>
                    [raised |-> c.raised, value |-> c.acc] = Alone(c.op, recipes)

\* a call has returned a grouping with entries while another call of the
\* same operation, begun before it ended, is between two recipes
C18_Witness ==
    \E t, u \in Readers :
       /\ t # u
       /\ readers[t].done /\ readers[t].raised = "none" /\ readers[t].acc # <<>>
       /\ readers[u].op = readers[t].op
       /\ ~readers[u].done /\ readers[u].k = 2
       /\ Len(recipes) = 2

(***************************************************************************)
(* C19                                                                     *)
(***************************************************************************)
\* the loaded recipes that have validation findings, as positions
HaveFindings == {k \in DOMAIN recipes : validate(recipes[k]) # <<>>}

\* C19: the validate command prints the findings of every document that
\* has some, and its exit status is 0 exactly when validate_all has returned
\* an empty mapping for the documents under the recipes root: it is not 0
\* when a document has a finding (nor when the root is missing and
\* validate_all never returns).
C19_ValidateExitStatus ==
    Returned("validate_recipes") =>
       /\ ret.value.exit = 0 <=> (ret.raised = "none" /\ HaveFindings = {})
       /\ ret.raised = "none" <=> root_exists
       /\ \A k \in HaveFindings :
             /\ DictHas(ret.value.printed, PathStr(recipes[k].filepath))
             /\ DictGet(ret.value.printed, PathStr(recipes[k].filepath))
                   = validate(recipes[k])
       /\ \A i \in DOMAIN ret.value.printed :
             \E k \in HaveFindings :
                ret.value.printed[i].key = PathStr(recipes[k].filepath)

\* the command has exited with a failure over a directory in which one
\* document has findings and another has none
C19_Witness ==
    /\ Returned("validate_recipes")
    /\ ret.raised = "none"
    /\ ret.value.exit # 0
    /\ HaveFindings # {}
    /\ HaveFindings # DOMAIN recipes
    /\ Len(ret.value.printed) = Cardinality(HaveFindings)

(***************************************************************************)
(* C20                                                                     *)
(***************************************************************************)
\* C20: after any sequence of load_recipes and validate_all calls on one
\* collection over an unchanged directory, no two entries of the recipe
\* list have the same source path, and every loadable document of the
\* directory has its entry once the collection is loaded.
C20_OneEntryPerPath ==
    /\ \A i, j \in DOMAIN recipes :
          recipes[i].filepath = recipes[j].filepath => i = j
    /\ loaded => \A f \in Range(LoadableRecipes(files)) :
                    \E k \in DOMAIN recipes : recipes[k] = f

(***************************************************************************)
(* C21                                                                     *)
(***************************************************************************)
\* the escape of one character: its replacement if it is special, else itself
EscapeOf(c) ==
    LET K == {k \in DOMAIN LatexReplacements : LatexReplacements[k][1] = c}
    IN  IF K = {} THEN <<c>> ELSE LatexReplacements[CHOOSE k \in K : TRUE][2]

\* the escapes of the characters of a text, one after the other
RECURSIVE EscapedOnce(_)
EscapedOnce(text) ==
    IF text = <<>> THEN <<>> ELSE EscapeOf(Head(text)) \o EscapedOnce(Tail(text))

\* C21: escape_latex escapes each special character exactly once: its
\* result is the concatenation of the escapes of the characters of the text,
\* so what a replacement introduces is not escaped again; a text without
\* special characters comes back unchanged, and None and the empty text
\* give the empty text.
C21_EscapesEachOnce ==
    Returned("escape_latex") =>
       /\ ret.raised = "none"
       /\ ret.value = IF ret.arg.t = "null" THEN <<>> ELSE EscapedOnce(ret.arg.s)

(***************************************************************************)
(* C22                                                                     *)
(***************************************************************************)
\* the display strings the PDF parser has registered, before they are
\* escaped
PdfRegistry(raw_content) ==
    LET r == PdfLoop(split_lines(strip(StripFrontmatter(raw_content))), 1, <<>>, <<>>)
    IN  [d \in DOMAIN r.dict |-> r.dict[d].display]

\* the site parser's items and the PDF parser's items are the same sequence
\* of section markers and steps: as many items, a section marker of the
\* same name where the other has one, a step where the other has a step
SameItems(site_instructions, pdf_instructions) ==
    /\ Len(site_instructions) = Len(pdf_instructions)
    /\ \A i \in DOMAIN pdf_instructions :
          IF pdf_instructions[i].kind = "section"
          THEN site_instructions[i]
                  = SectionHeaderOpen \o pdf_instructions[i].text \o SectionHeaderClose
          ELSE ~startswith(site_instructions[i], HeaderPrefix)

\* the two parsers agree on a document
ParsersAgree(raw_content) ==
    /\ site_parse_recipe_content(raw_content).unique_ingredients = PdfRegistry(raw_content)
    /\ SameItems(site_parse_recipe_content(raw_content).instructions,
                 pdf_parse_recipe_content(raw_content).instructions)

\* C22: the two parsers agree on the ingredient registry of every recipe
\* body: they register the same display strings in the same order (the site
\* before it wraps them in a list, the PDF before it escapes them), and they
\* emit the same sequence of section markers and steps.
C22_ParsersAgree ==
    (Returned("site_parse_recipe_content") \/ Returned("pdf_parse_recipe_content")) =>
       ParsersAgree(recipes[ret.arg].raw_content)

\* the position of an event in the events of a command (0: it is not there)
RECURSIVE EventAt(_, _, _)
EventAt(events, e, i) ==
    IF i > Len(events) THEN 0
    ELSE IF events[i] = e THEN i ELSE EventAt(events, e, i + 1)

\* C23: the build status reflects the PDF compilation: in every run of the
\* pdf and all commands build_pdf succeeds, and build_all reports "Build
\* completed successfully" with exit status 0, only if compile_pdf has
\* returned true in this run; the PDF is copied to the site directory only
\* after a successful compilation of this run; in all the copy comes after
\* the cleaning of the site directory, so that the copied PDF is in the
\* site directory when the build ends.
C23_StatusReflectsCompilation ==
    (Returned("pdf") \/ Returned("all")) =>
       /\ ret.value.pdf_success => ret.value.compiled = "true"
       /\ (ret.op = "all" /\ (ret.value.exit = 0
                              \/ ret.value.message = "Build completed successfully"))
             => ret.value.compiled = "true"
       /\ ret.value.copied =>
             /\ ret.value.compiled = "true"
             /\ disk.docs_pdf = disk.run
       /\ (ret.op = "all" /\ ret.value.copied) =>
             /\ EventAt(ret.value.events, "clean", 1) < EventAt(ret.value.events, "copy", 1)
             /\ disk.docs_pdf # 0

====
